---- MODULE Spec2Model ----
(***************************************************************************)
(* Message-detection and deduplication pipeline of the WhatsApp alarm      *)
(* system: the observer injected into the page (processNode), the poll     *)
(* loop, MessageWatcher.handleMessage with its recency filter, duplicate   *)
(* cache, keyword matcher and chat filter, and the text utilities          *)
(* (normalizeArabicText, hashText, matchKeywords).                         *)
(*                                                                         *)
(* Strings are sequences of UTF-16 code units.  Time is counted in clock   *)
(* units; MinuteMs is the length of a minute in those units and            *)
(* duplicateCacheTTL and MAX_HASH_CACHE_SIZE are scaled down with it, so    *)
(* that expiry, the minute floor and the sweep are all reachable.          *)
(***************************************************************************)
EXTENDS Integers, Sequences, FiniteSets, TLC

\* ------------------------------------------------------------------ bounds
MaxTime == 6            \* the clock stops advancing here
MaxCalls == 2           \* handleMessage calls made by a direct caller
MaxMutations == 2       \* added-node mutations delivered to the observer
NumPollers == 2         \* poll ticks that may be in flight at once
MaxInserts == 3         \* handleMessage calls that fill the duplicate cache
MaxTextLen == 3         \* length of the texts given to _findMatchedKeyword
MaxCleanups == 2        \* calls of cleanup()
MaxSpawns == 3          \* audio processes the alarm starts

\* ------------------------------------------------- program constants (scaled)
MinuteMs == 2               \* setSeconds(0, 0): one minute of clock units
duplicateCacheTTL == 3      \* config.detection.duplicateCacheTTL
MAX_HASH_CACHE_SIZE == 2    \* soft cap of detectedHashes
MIN_MESSAGE_LENGTH == 2     \* processNode: text.length <= minLength is dropped

\* ------------------------------------------------------------- characters
TATWEEL == 1600
SOFT_HYPHEN == 173
ZeroWidth == {8203, 8204, 8205, 8206, 8207}
PIPE == 124
NoTimestamp == -1       \* JavaScript null for a timestamp
NoKey == << >>          \* JavaScript null for a messageKey
NoKeyword == << 0 >>    \* JavaScript null returned by _findMatchedKeyword
Whitespace == {32}
Punctuation == {46, 1548}     \* "." and the Arabic comma, both in \p{P}

\* canonical compositions known to the model: <<starter, mark, composed>>
Compositions ==
  { <<1575, 1619, 1570>>,     \* ALEF + MADDA ABOVE  -> ALEF WITH MADDA ABOVE
    <<1575, 1620, 1571>> }    \* ALEF + HAMZA ABOVE  -> ALEF WITH HAMZA ABOVE

Compose(base, mark) ==
  IF \E c \in Compositions : c[1] = base /\ c[2] = mark
  THEN (CHOOSE c \in Compositions : c[1] = base /\ c[2] = mark)[3]
  ELSE 0

\* String.prototype.normalize("NFC") on the model's alphabet: a combining mark
\* composes with the character just before it when the pair has a composition.
RECURSIVE NFCFrom(_, _, _)
NFCFrom(s, i, out) ==
  IF i > Len(s) THEN out
  ELSE IF Len(out) > 0 /\ Compose(out[Len(out)], s[i]) # 0
       THEN NFCFrom(s, i + 1,
                    [out EXCEPT ![Len(out)] = Compose(out[Len(out)], s[i])])
       ELSE NFCFrom(s, i + 1, Append(out, s[i]))

NFC(s) == NFCFrom(s, 1, << >>)

\* String.prototype.replace(/[set]/g, "")
Strip(s, set) == SelectSeq(s, LAMBDA c : c \notin set)

normalizeArabicText(text) ==
  IF text = << >> THEN << >>
  ELSE Strip(Strip(Strip(NFC(text), {TATWEEL}), ZeroWidth), {SOFT_HYPHEN})

\* String.prototype.toLowerCase
toLowerCase(s) == [i \in 1..Len(s) |-> IF s[i] >= 65 /\ s[i] <= 90 THEN s[i] + 32 ELSE s[i]]

\* String.prototype.includes
includes(s, sub) ==
  \E i \in 0..(Len(s) - Len(sub)) : \A j \in 1..Len(sub) : s[i + j] = sub[j]

\* ---------------------------------------------------------------- hashText
\* A 32-bit value is kept as <<high 16 bits, low 16 bits>>.
HashStep(h, char) ==
  LET lo == h[2] * 31 + char
      hi == h[1] * 31 + (lo \div 65536)
  IN  << hi % 65536, lo % 65536 >>

RECURSIVE HashFrom(_, _, _)
HashFrom(text, i, h) ==
  IF i > Len(text) THEN h ELSE HashFrom(text, i + 1, HashStep(h, text[i]))

\* Math.abs of the signed 32-bit value
Abs32(h) ==
  IF h[1] < 32768 THEN h
  ELSE IF h[2] = 0 THEN << 65536 - h[1], 0 >>
                   ELSE << 65535 - h[1], 65536 - h[2] >>

HexDigit(d) == IF d < 10 THEN 48 + d ELSE 87 + d

RECURSIVE HexOf(_)
HexOf(n) == IF n < 16 THEN << HexDigit(n) >> ELSE Append(HexOf(n \div 16), HexDigit(n % 16))

Hex4(n) == << HexDigit(n \div 4096), HexDigit((n \div 256) % 16),
              HexDigit((n \div 16) % 16), HexDigit(n % 16) >>

\* Number.prototype.toString(16)
ToString16(h) == IF h[1] = 0 THEN HexOf(h[2]) ELSE HexOf(h[1]) \o Hex4(h[2])

hashText(text) == ToString16(Abs32(HashFrom(text, 1, << 0, 0 >>)))

\* template literal `${n}` of a non-negative integer
RECURSIVE Decimal(_)
Decimal(n) == IF n < 10 THEN << 48 + n >> ELSE Append(Decimal(n \div 10), 48 + (n % 10))

\* `${timestamp ?? ""}`
TimestampText(timestamp) == IF timestamp = NoTimestamp THEN << >> ELSE Decimal(timestamp)

\* ------------------------------------------------------------ configuration
\* The keyword list of config.detection.keywords, as code units.
ConfigKeywords ==
  << << 1575, 1604, 1594, 1610, 1575, 1576 >>,
     << 1578, 1571, 1582, 1610, 1585 >>,
     << 1594, 1610, 1575, 1576 >>,
     << 1578, 1571, 1582, 1585 >>,
     << 1594, 1575, 1576 >> >>

DefaultConfig ==
  [ keywords |-> ConfigKeywords,
    wholeWordMatch |-> FALSE,
    caseSensitive |-> FALSE,
    enableDuplicateProtection |-> TRUE,
    chatFilter |-> [ enabled |-> FALSE, mode |-> "whitelist",
                     whitelistedChats |-> << "Mom", "Work Group", "Family" >> ],
    alarm |-> [ loop |-> TRUE, autoStopMs |-> 0 ] ]

ChatNames == { "Mom", "Dad", "Unknown" }

VARIABLES
  now,              \* Date.now()
  config,           \* the config object (passive data, fixed during a run)
  startupTime,      \* MessageWatcher.startupTime (the watermark)
  observerActive,   \* MessageWatcher.observerActive
  detectedHashes,   \* MessageWatcher.detectedHashes: hash -> time recorded
  observing,        \* page: the MutationObserver is attached
  messageQueue,     \* page: window.__messageQueue
  seenMessageKeys,  \* page: window.__seenMessageKeys
  pollInterval,     \* the interval timer returned by startPolling
  tasks,            \* activations in flight: poll ticks, or the direct caller
  calls,            \* history: one entry per handleMessage invocation
  nMutations,       \* history: mutations delivered to the observer so far
  outgoingSeen,     \* history: an outgoing node has been delivered to the observer
  probe,            \* last application of a pure function (function specs)
  alarm,            \* the AlarmSystem object, its timers and audio processes
  system            \* the WhatsAppAlarmSystem object and the process

NoProbe == [ fn |-> "none" ]

\* AlarmSystem constructor.  Beside the fields of the object: loops counts the
\* interval timers that are not cleared, alive holds the audio processes whose
\* exit event is not delivered yet, killed those of them that stop() has
\* killed, spawned counts the processes started,
\* autoStops holds the times at which pending auto-stop timers are due,
\* startedAt and stoppedBy keep when start() last started the alarm and which
\* caller's stop() last stopped it.
AlarmConstructed ==
  [ isPlaying |-> FALSE, isCurrentlyPlaying |-> FALSE, audioProcess |-> 0,
    loopInterval |-> "null", loops |-> 0, alive |-> {}, killed |-> {}, spawned |-> 0,
    autoStops |-> {}, startedAt |-> NoTimestamp, stoppedBy |-> "none" ]

\* WhatsAppAlarmSystem constructor; pc is the position of start() or
\* shutdown(), browser the state of the Puppeteer browser, exit the exit code
\* of the process (NoTimestamp while it runs)
SystemConstructed ==
  [ isRunning |-> FALSE, pc |-> "new", browser |-> "none", exit |-> NoTimestamp ]

vars == << now, config, startupTime, observerActive, detectedHashes, observing,
           messageQueue, seenMessageKeys, pollInterval, tasks, calls,
           nMutations, outgoingSeen, probe, alarm, system >>

watcherVars == << startupTime, observerActive, detectedHashes >>
pageVars == << observing, messageQueue, seenMessageKeys, nMutations, outgoingSeen >>

\* ------------------------------------------------------------ matchKeywords
IsBoundary(c) == c \in Whitespace \cup Punctuation

\* the characters of the class in escapeRegex that the model's texts contain:
\* "." and the backslash
RegexSpecial == { 46, 92 }

\* escapeRegex: str.replace(/[.*+?^${}()|[\]\\]/g, "\\$&")
RECURSIVE escapeRegex(_)
escapeRegex(str) ==
  IF str = << >> THEN << >>
  ELSE (IF Head(str) \in RegexSpecial THEN << 92, Head(str) >> ELSE << Head(str) >>)
         \o escapeRegex(Tail(str))

\* The atoms the RegExp constructor reads from the keyword part of the pattern:
\* a backslash makes the next character a literal, an unescaped "." matches
\* any character, every other character is a literal.
RECURSIVE PatternAtoms(_)
PatternAtoms(src) ==
  IF src = << >> THEN << >>
  ELSE IF Head(src) = 92 /\ Len(src) > 1
  THEN << [ any |-> FALSE, char |-> src[2] ] >> \o PatternAtoms(Tail(Tail(src)))
  ELSE IF Head(src) = 46
  THEN << [ any |-> TRUE, char |-> 46 ] >> \o PatternAtoms(Tail(src))
  ELSE << [ any |-> FALSE, char |-> Head(src) ] >> \o PatternAtoms(Tail(src))

\* the atoms match the text from offset i on
AtomsMatchAt(atoms, searchText, i) ==
  /\ i + Len(atoms) <= Len(searchText)
  /\ \A j \in 1..Len(atoms) : atoms[j].any \/ searchText[i + j] = atoms[j].char

\* the pattern (^|\s|[\p{P}])(atoms)($|\s|[\p{P}]) matches somewhere
BoundedMatch(atoms, searchText) ==
  \E i \in 0..Len(searchText) :
     /\ AtomsMatchAt(atoms, searchText, i)
     /\ (i = 0 \/ IsBoundary(searchText[i]))
     /\ (i + Len(atoms) = Len(searchText)
           \/ IsBoundary(searchText[i + Len(atoms) + 1]))

\* fault: the pattern lacks its trailing group
WholeWordTestMutant(searchText, kw) ==
  \E i \in 0..Len(searchText) :
     /\ AtomsMatchAt(PatternAtoms(escapeRegex(kw)), searchText, i)
     /\ (i = 0 \/ IsBoundary(searchText[i]))

\* new RegExp(`(^|\\s|[\\p{P}])(${escapeRegex(kw)})($|\\s|[\\p{P}])`, "u").test(searchText)
WholeWordTest(searchText, kw) == BoundedMatch(PatternAtoms(escapeRegex(kw)), searchText)

\* a configured keyword is a string; a keyword that is not one (the number n
\* written in the list) is kept as << -n >>
IsString(keyword) == \A i \in DOMAIN keyword : keyword[i] >= 0

\* matchKeywords, one turn of the loop: the keyword makes it throw a TypeError
\* (keyword.toLowerCase, or str.replace in escapeRegex, of a non-string)
KeywordThrows(keyword, options) ==
  ~IsString(keyword) /\ (~options.caseSensitive \/ options.wholeWordMatch)

\* searchKeyword as the test sees it; includes() turns a number into its
\* decimal string
SearchKeyword(keyword, options) ==
  IF ~IsString(keyword) THEN Decimal(-keyword[1])
  ELSE IF options.caseSensitive THEN keyword
  ELSE toLowerCase(keyword)

\* matchKeywords, one turn of the loop: the test succeeds
KeywordHits(searchText, keyword, options) ==
  IF options.wholeWordMatch
  THEN WholeWordTest(searchText, SearchKeyword(keyword, options))
  ELSE includes(searchText, SearchKeyword(keyword, options))

\* the least element of a set of indices, 0 when it is empty
First(indices) ==
  IF indices = {} THEN 0 ELSE CHOOSE k \in indices : \A m \in indices : k <= m

\* the first turn of the loop of matchKeywords that returns or throws
FirstDecisive(searchText, keywords, options) ==
  First({ k \in DOMAIN keywords :
            \/ KeywordThrows(normalizeArabicText(keywords[k]), options)
            \/ KeywordHits(searchText, normalizeArabicText(keywords[k]), options) })

SearchText(text, options) ==
  IF options.caseSensitive THEN normalizeArabicText(text)
  ELSE toLowerCase(normalizeArabicText(text))

\* matchKeywords throws
matchKeywordsThrows(text, keywords, options) ==
  IF text = << >> \/ Len(keywords) = 0 THEN FALSE
  ELSE \E k \in DOMAIN keywords :
         /\ k = FirstDecisive(SearchText(text, options), keywords, options)
         /\ KeywordThrows(normalizeArabicText(keywords[k]), options)

\* matchKeywords returns true
matchKeywords(text, keywords, options) ==
  IF text = << >> \/ Len(keywords) = 0 THEN FALSE
  ELSE \E k \in DOMAIN keywords :
         /\ k = FirstDecisive(SearchText(text, options), keywords, options)
         /\ ~KeywordThrows(normalizeArabicText(keywords[k]), options)

\* fault: the last matching keyword of the list instead of the first
FindMatchedKeywordMutant(text, cfg) ==
  LET hits == { k \in 1..Len(cfg.keywords) :
                  matchKeywords(text, << cfg.keywords[k] >>,
                                [ caseSensitive |-> cfg.caseSensitive,
                                  wholeWordMatch |-> cfg.wholeWordMatch ]) }
  IN  IF hits = {} THEN NoKeyword
      ELSE cfg.keywords[CHOOSE k \in hits : \A m \in hits : m <= k]

MatchOptions(cfg) ==
  [ caseSensitive |-> cfg.caseSensitive, wholeWordMatch |-> cfg.wholeWordMatch ]

\* _findMatchedKeyword: the loop returns at turn hit, unless an earlier turn
\* (thrown, when not 0) threw into the catch, which returns null
LoopResult(hit, thrown, keywords) ==
  IF hit = 0 THEN NoKeyword
  ELSE IF thrown # 0 /\ thrown < hit THEN NoKeyword
  ELSE keywords[hit]

\* MessageWatcher._findMatchedKeyword; cfg is config.detection
_findMatchedKeyword(text, cfg) ==
  LoopResult(
    First({ k \in DOMAIN cfg.keywords :
              matchKeywords(text, << cfg.keywords[k] >>, MatchOptions(cfg)) }),
    First({ k \in DOMAIN cfg.keywords :
              matchKeywordsThrows(text, << cfg.keywords[k] >>, MatchOptions(cfg)) }),
    cfg.keywords)

\* ------------------------------------------------------------- recency filter
\* Date.prototype.setSeconds(0, 0): the start of the minute t lies in
FloorToMinute(t) == t - (t % MinuteMs)

\* startupFloor.setSeconds(0, 0); startupFloor.getTime()
StartupFloorTime(startup) == FloorToMinute(startup)

\* fault: the watermark is compared as it is, not floored to the minute
IsRecentMessageMutant(timestamp, startup, clock) ==
  IF timestamp = 0 THEN FALSE
  ELSE IF timestamp = NoTimestamp THEN FALSE
  ELSE IF timestamp > clock THEN FALSE
  ELSE timestamp >= startup

\* fault: the watermark is not compared at all
IsRecentNoWatermark(timestamp, startup, clock) ==
  IF timestamp = 0 THEN FALSE
  ELSE IF timestamp = NoTimestamp THEN FALSE
  ELSE IF timestamp > clock THEN FALSE
  ELSE TRUE

\* MessageWatcher._isRecentMessage; startup is this.startupTime, clock Date.now()
_isRecentMessage(timestamp, startup, clock) ==
  IF timestamp = 0 THEN FALSE
  ELSE IF timestamp = NoTimestamp THEN FALSE
  ELSE IF timestamp > clock THEN FALSE
  ELSE IF timestamp >= StartupFloorTime(startup) THEN TRUE
  ELSE FALSE

\* ------------------------------------------------------------ duplicate cache
MapSet(m, k, v) == [ x \in DOMAIN m \cup {k} |-> IF x = k THEN v ELSE m[x] ]

\* fault: a recorded hash never expires
IsHashRecentMutant(hashes, hash, currentTime) == hash \in DOMAIN hashes

\* MessageWatcher._isHashRecent
_isHashRecent(hashes, hash, currentTime) ==
  IF hash \notin DOMAIN hashes THEN FALSE
  ELSE currentTime - hashes[hash] < duplicateCacheTTL

\* fault: the sweep does not wait for the cap
CleanupOldHashesMutant(hashes, clock) ==
  [ h \in { x \in DOMAIN hashes : ~(clock - hashes[x] > duplicateCacheTTL) }
      |-> hashes[h] ]

\* MessageWatcher._cleanupOldHashes
_cleanupOldHashes(hashes, clock) ==
  IF Cardinality(DOMAIN hashes) <= MAX_HASH_CACHE_SIZE THEN hashes
  ELSE [ h \in { x \in DOMAIN hashes : ~(clock - hashes[x] > duplicateCacheTTL) }
           |-> hashes[h] ]

FallbackFingerprint(text, timestamp) ==
  text \o << PIPE >> \o TimestampText(timestamp)

KeyFingerprint(text, timestamp, messageKey) ==
  messageKey \o << PIPE >> \o TimestampText(timestamp) \o << PIPE >> \o text

\* fault: the fingerprint is recorded but never looked up
IsDuplicateMutant(text, timestamp, messageKey, hashes, clock, cfg) ==
  [ duplicate |-> FALSE,
    hashes |-> MapSet(hashes, hashText(FallbackFingerprint(text, timestamp)), clock) ]

\* fault: with an identity key only the identity fingerprint is looked up
CheckHashesMutant(fallbackHash, keyHash, messageKey, hashes, clock) ==
  IF _isHashRecent(hashes, IF messageKey # NoKey THEN keyHash ELSE fallbackHash, clock)
  THEN [ duplicate |-> TRUE, hashes |-> hashes ]
  ELSE [ duplicate |-> FALSE,
         hashes |-> _cleanupOldHashes(
                      MapSet(IF messageKey # NoKey THEN MapSet(hashes, keyHash, clock)
                                                   ELSE hashes,
                             fallbackHash, clock),
                      clock) ]

\* fault: a duplicate hit records the current time for the fingerprint
CheckHashesRefreshMutant(fallbackHash, keyHash, messageKey, hashes, clock) ==
  IF _isHashRecent(hashes, fallbackHash, clock)
  THEN [ duplicate |-> TRUE, hashes |-> MapSet(hashes, fallbackHash, clock) ]
  ELSE IF messageKey # NoKey /\ _isHashRecent(hashes, keyHash, clock)
  THEN [ duplicate |-> TRUE, hashes |-> MapSet(hashes, keyHash, clock) ]
  ELSE [ duplicate |-> FALSE,
         hashes |-> _cleanupOldHashes(
                      MapSet(IF messageKey # NoKey THEN MapSet(hashes, keyHash, clock)
                                                   ELSE hashes,
                             fallbackHash, clock),
                      clock) ]

\* _isDuplicate once both hashes are computed
CheckHashes(fallbackHash, keyHash, messageKey, hashes, clock) ==
  IF _isHashRecent(hashes, fallbackHash, clock)
  THEN [ duplicate |-> TRUE, hashes |-> hashes ]
  ELSE IF messageKey # NoKey /\ _isHashRecent(hashes, keyHash, clock)
  THEN [ duplicate |-> TRUE, hashes |-> hashes ]
  ELSE [ duplicate |-> FALSE,
         hashes |-> _cleanupOldHashes(
                      MapSet(IF messageKey # NoKey THEN MapSet(hashes, keyHash, clock)
                                                   ELSE hashes,
                             fallbackHash, clock),
                      clock) ]

\* MessageWatcher._isDuplicate: the verdict and the cache it leaves
_isDuplicate(text, timestamp, messageKey, hashes, clock, cfg) ==
  IF ~cfg.enableDuplicateProtection THEN [ duplicate |-> FALSE, hashes |-> hashes ]
  ELSE CheckHashes(hashText(FallbackFingerprint(text, timestamp)),
                   hashText(KeyFingerprint(text, timestamp, messageKey)),
                   messageKey, hashes, clock)

\* ---------------------------------------------------------------- chat filter
\* fault: chatFilter.enabled is not consulted
IsChatAllowedMutant(chatName, cfg) ==
  IF cfg.chatFilter.mode = "whitelist"
  THEN \E i \in 1..Len(cfg.chatFilter.whitelistedChats) :
         cfg.chatFilter.whitelistedChats[i] = chatName
  ELSE TRUE

\* MessageWatcher._isChatAllowed
_isChatAllowed(chatName, cfg) ==
  IF ~cfg.chatFilter.enabled THEN TRUE
  ELSE IF cfg.chatFilter.mode = "whitelist"
  THEN \E i \in 1..Len(cfg.chatFilter.whitelistedChats) :
         cfg.chatFilter.whitelistedChats[i] = chatName
  ELSE TRUE

\* ------------------------------------------------------------- handleMessage
\* One entry of the history of handleMessage invocations.  marker is the
\* direction marker of the node the message came from ("none" for an incoming
\* node or a direct call).  epoch counts the detections emitted before the
\* call started, emitNo numbers the detection the call emitted.
CallEntry(msg, clock, startup, epoch, verdict, keyword) ==
  [ text |-> msg.text, timestamp |-> msg.timestamp, messageKey |-> msg.messageKey,
    marker |-> msg.marker, at |-> clock, startup |-> startup, epoch |-> epoch,
    verdict |-> verdict, keyword |-> keyword,
    chatSeen |-> "", chatName |-> "", emitAt |-> 0, emitNo |-> 0 ]

Emitted(log) == { i \in DOMAIN log : log[i].verdict = "emitted" }

\* handleMessage after _findMatchedKeyword
KeywordVerdict(matchedKeyword, hashes) ==
  [ verdict |-> IF matchedKeyword = NoKeyword \/ matchedKeyword = << >>
                THEN "nomatch" ELSE "matched",
    hashes |-> hashes, keyword |-> matchedKeyword ]

\* handleMessage after _isDuplicate returned d
DuplicateVerdict(d, msg, cfg) ==
  IF d.duplicate
  THEN [ verdict |-> "duplicate", hashes |-> d.hashes, keyword |-> NoKeyword ]
  ELSE KeywordVerdict(_findMatchedKeyword(msg.text, cfg), d.hashes)

\* fault: the duplicate cache is consulted, and written, before the recency
\* filter
RecencyAfterDuplicate(d, msg, startup, clock, cfg) ==
  IF d.duplicate
  THEN [ verdict |-> "duplicate", hashes |-> d.hashes, keyword |-> NoKeyword ]
  ELSE IF ~_isRecentMessage(msg.timestamp, startup, clock)
  THEN [ verdict |-> "old", hashes |-> d.hashes, keyword |-> NoKeyword ]
  ELSE KeywordVerdict(_findMatchedKeyword(msg.text, cfg), d.hashes)

HandleSyncMutant(msg, hashes, startup, clock, cfg) ==
  RecencyAfterDuplicate(
    _isDuplicate(msg.text, msg.timestamp, msg.messageKey, hashes, clock, cfg),
    msg, startup, clock, cfg)

\* handleMessage up to its first await: the recency filter, the duplicate
\* cache, the keyword match.  Returns the verdict and the cache it leaves.
HandleSync(msg, hashes, startup, clock, cfg) ==
  IF msg.text = << >>
  THEN [ verdict |-> "empty", hashes |-> hashes, keyword |-> NoKeyword ]
  ELSE IF ~_isRecentMessage(msg.timestamp, startup, clock)
  THEN [ verdict |-> "old", hashes |-> hashes, keyword |-> NoKeyword ]
  ELSE DuplicateVerdict(
         _isDuplicate(msg.text, msg.timestamp, msg.messageKey, hashes, clock, cfg),
         msg, cfg)

IdleTask == [ pc |-> "idle", batch |-> << >>, idx |-> 0, call |-> 0 ]

\* processNewMessages: `for (const msg of messages) await this.handleMessage(msg)`
\* from message idx on, up to the first message that waits for the page (the
\* chat-name lookup) or to the end of the batch.  A message rejected before
\* its first page round trip gives way to the next one in the same turn of
\* the event loop.  Returns the task, the cache and the history.
RECURSIVE ProcessFrom(_, _, _, _, _, _, _)

\* fault: the loop ends with the first message that is rejected
ProcessStepMutant(r, nextLog, batch, idx, startup, clock, cfg) ==
  IF r.verdict = "matched"
  THEN [ task |-> [ pc |-> IF cfg.chatFilter.enabled THEN "chat1" ELSE "chat2",
                    batch |-> batch, idx |-> idx, call |-> Len(nextLog) ],
         hashes |-> r.hashes,
         log |-> nextLog ]
  ELSE [ task |-> IdleTask, hashes |-> r.hashes, log |-> nextLog ]

\* the loop after handleMessage(batch[idx]) reached verdict r
ProcessStep(r, nextLog, batch, idx, startup, clock, cfg) ==
  IF r.verdict = "matched"
  THEN [ task |-> [ pc |-> IF cfg.chatFilter.enabled THEN "chat1" ELSE "chat2",
                    batch |-> batch, idx |-> idx, call |-> Len(nextLog) ],
         hashes |-> r.hashes,
         log |-> nextLog ]
  ELSE ProcessFrom(batch, idx + 1, r.hashes, nextLog, startup, clock, cfg)

\* the history with the entry of the call that reached verdict r
Logged(r, msg, log, startup, clock) ==
  Append(log, CallEntry(msg, clock, startup, Cardinality(Emitted(log)),
                        r.verdict, r.keyword))

HandleOne(r, batch, idx, log, startup, clock, cfg) ==
  ProcessStep(r, Logged(r, batch[idx], log, startup, clock),
              batch, idx, startup, clock, cfg)

ProcessFrom(batch, idx, hashes, log, startup, clock, cfg) ==
  IF idx > Len(batch)
  THEN [ task |-> IdleTask, hashes |-> hashes, log |-> log ]
  ELSE HandleOne(HandleSync(batch[idx], hashes, startup, clock, cfg),
                 batch, idx, log, startup, clock, cfg)

\* activation t goes on as r says, with the cache and the history r leaves
Resume(t, r) ==
  /\ tasks' = [tasks EXCEPT ![t] = r.task]
  /\ calls' = r.log
  /\ detectedHashes' = r.hashes

\* the history once call c has seen chatName and has been allowed or filtered
ChatSeen(c, chatName, allowed) ==
  [calls EXCEPT ![c].chatSeen = chatName,
                ![c].verdict = IF allowed THEN "matched" ELSE "filtered"]

\* the history once call c has emitted its detection at clock
EmittedBy(c, chatName, clock) ==
  [calls EXCEPT ![c].chatName = chatName,
                ![c].verdict = "emitted",
                ![c].emitAt = clock,
                ![c].emitNo = Cardinality(Emitted(calls)) + 1]

\* ------------------------------------------------------------------- actions
\* time passes
ClockTick ==
  /\ now < MaxTime
  /\ now' = now + 1
  /\ UNCHANGED << alarm, system, config, watcherVars, pageVars, pollInterval, tasks, calls, probe >>

\* _shouldFilterByChat: the page answers the chat-name lookup with chatName
\* ("Unknown" also when the lookup throws); _isChatAllowed decides.
ShouldFilterByChat(t, chatName) ==
  /\ tasks[t].pc = "chat1"
  /\ Resume(t, IF _isChatAllowed(chatName, config)
               THEN [ task |-> [tasks[t] EXCEPT !.pc = "chat2"],
                      hashes |-> detectedHashes,
                      log |-> ChatSeen(tasks[t].call, chatName, TRUE) ]
               ELSE ProcessFrom(tasks[t].batch, tasks[t].idx + 1, detectedHashes,
                                ChatSeen(tasks[t].call, chatName, FALSE),
                                startupTime, now, config))
  /\ UNCHANGED << alarm, system, now, config, startupTime, observerActive, pageVars, pollInterval, probe >>

\* fault: the watermark is set to the timestamp of the detected message
WatermarkAfterDetectionMutant(clock, detected) == detected.timestamp

\* _triggerAlarm: this.startupTime = Date.now()
WatermarkAfterDetection(clock, detected) == clock

\* The page answers the chat-name lookup for the event payload; _triggerAlarm
\* advances the watermark and calls onMessageDetected; the batch goes on.
TriggerAlarm(t, chatName) ==
  /\ tasks[t].pc = "chat2"
  /\ startupTime' = WatermarkAfterDetection(now, calls[tasks[t].call])
  /\ Resume(t, ProcessFrom(tasks[t].batch, tasks[t].idx + 1, detectedHashes,
                           EmittedBy(tasks[t].call, chatName, now), now, now, config))
  /\ UNCHANGED << alarm, system, now, config, observerActive, pageVars, pollInterval, probe >>

\* A caller invokes watcher.handleMessage(msg) and awaits it; the caller makes
\* at most `limit` calls.
HandleMessageCall(msg, limit) ==
  /\ tasks[1].pc = "idle"
  /\ Len(calls) < limit
  /\ Resume(1, ProcessFrom(<< msg >>, 1, detectedHashes, calls, startupTime, now, config))
  /\ UNCHANGED << alarm, system, now, config, startupTime, observerActive, pageVars, pollInterval, probe >>

CallHandleMessage(msg) == HandleMessageCall(msg, MaxCalls)

\* ------------------------------------------------- direct calls of handleMessage
TextGhab == << 1594, 1575, 1576 >>           \* contains the keyword at index 5
TextGhiyab == << 1594, 1610, 1575, 1576 >>   \* contains the keyword at index 3
TextPlain == << 1576, 1604, 1575 >>          \* contains no keyword
KeyM1 == << 105, 100, 58, 109, 49 >>         \* "id:m1"

StartTimes == { MinuteMs, MinuteMs + 1 }

\* the messages a caller passes to handleMessage
Messages(texts, timestamps, keys) ==
  { [ text |-> x, timestamp |-> ts, messageKey |-> k, marker |-> "none" ] :
      x \in texts, ts \in timestamps, k \in keys }

HandleMessages ==
  Messages({ TextGhab, TextPlain }, { 0 } \cup StartTimes, { NoKey, KeyM1 })

\* The state after `new MessageWatcher(page, callback)` at clock value t, and
\* the other objects as their constructors leave them
Built(t, cfg) ==
  /\ now = t
  /\ config = cfg
  /\ startupTime = t
  /\ observerActive = FALSE
  /\ detectedHashes = << >>
  /\ observing = FALSE
  /\ messageQueue = << >>
  /\ seenMessageKeys = {}
  /\ pollInterval = "null"
  /\ tasks = [ t2 \in 1..NumPollers |-> IdleTask ]
  /\ calls = << >>
  /\ nMutations = 0
  /\ outgoingSeen = FALSE
  /\ probe = NoProbe
  /\ alarm = AlarmConstructed

Constructed(t, cfg) ==
  /\ Built(t, cfg)
  /\ system = SystemConstructed

InitHandle == \E t \in StartTimes : Constructed(t, DefaultConfig)

NextHandle ==
  \/ ClockTick
  \/ \E msg \in HandleMessages : CallHandleMessage(msg)
  \/ TriggerAlarm(1, "Mom")

SpecHandle == InitHandle /\ [][NextHandle]_vars

\* --------------------------- direct calls of handleMessage, with a chat filter
StagesConfigs ==
  { DefaultConfig,
    [ DefaultConfig EXCEPT !.chatFilter.enabled = TRUE,
                           !.chatFilter.whitelistedChats = << "Mom" >> ] }

InitStages == \E cfg \in StagesConfigs : Constructed(MinuteMs, cfg)

NextStages ==
  \/ ClockTick
  \/ \E msg \in HandleMessages : CallHandleMessage(msg)
  \/ \E chatName \in { "Mom", "Dad" } : ShouldFilterByChat(1, chatName)
  \/ TriggerAlarm(1, "Mom")

SpecStages == InitStages /\ [][NextStages]_vars

\* ------------------------------------------------------- the injected observer
\* An added node as the observer sees it: its nodeType, whether
\* findMessageContainer resolves a container for it, and of that container the
\* data-id ("" when absent), the trimmed textContent, the message-out marker on
\* itself (classList) and on itself or an ancestor (closest), and the text of
\* its timestamp element.
Node(nodeType, resolved, dataId, text, classOut, closestOut, time) ==
  [ nodeType |-> nodeType, resolved |-> resolved, dataId |-> dataId, text |-> text,
    classOut |-> classOut, closestOut |-> closestOut, time |-> time ]

\* The text of the timestamp element, by what the observer can parse from it.
Bracket(t) == [ kind |-> "bracket", value |-> t ]   \* "[h:mm, date] sender:"
Relative == [ kind |-> "relative", value |-> 0 ]    \* "yesterday", no bracketed date
Garbage == [ kind |-> "garbage", value |-> 0 ]      \* nothing parses
NoTimeElement == [ kind |-> "none", value |-> 0 ]   \* no timestamp element

\* timeElement.getAttribute("data-pre-plain-text") || timeElement.textContent
TimeText(time) ==
  CASE time.kind = "bracket" -> << 91 >> \o Decimal(time.value) \o << 93 >>
    [] time.kind = "relative" -> << 1571, 1605, 1587 >>
    [] time.kind = "garbage" -> << 63 >>
    [] OTHER -> << >>

\* fault: only the classList of the container is consulted, not closest()
IsOutgoingMutant(element) == element.classOut

\* isOutgoing (injected observer)
isOutgoing(element) == element.classOut \/ element.closestOut

\* fault: the relative-age markers are not looked for
ExtractTimestampMutant(container) ==
  CASE container.time.kind = "none" -> NoTimestamp
    [] container.time.kind = "bracket" /\ container.time.value > 0 -> container.time.value
    [] OTHER -> NoTimestamp

\* extractTimestamp (injected observer)
extractTimestamp(container) ==
  CASE container.time.kind = "none" -> NoTimestamp
    [] container.time.kind = "bracket" /\ container.time.value > 0 -> container.time.value
    [] container.time.kind = "relative" -> 0
    [] OTHER -> NoTimestamp

\* extractMessageKey (injected observer)
extractMessageKey(container, timeText, text) ==
  IF container.dataId # << >>
  THEN << 105, 100, 58 >> \o container.dataId
  ELSE IF timeText # << >>
  THEN << 109, 101, 116, 97, 58 >> \o timeText
         \o << 124, 116, 101, 120, 116, 58 >> \o text
  ELSE << 116, 101, 120, 116, 58 >> \o text

MarkerOf(node) ==
  IF node.classOut THEN "class" ELSE IF node.closestOut THEN "ancestor" ELSE "none"

\* processNode (injected observer): what it does with the added node, and the
\* queue and seen-set it leaves.
processNode(node, queue, seen) ==
  IF node.nodeType # "element"
  THEN [ did |-> "notElement", queue |-> queue, seen |-> seen ]
  ELSE IF ~node.resolved
  THEN [ did |-> "noContainer", queue |-> queue, seen |-> seen ]
  ELSE IF Len(node.text) <= MIN_MESSAGE_LENGTH
  THEN [ did |-> "short", queue |-> queue, seen |-> seen ]
  ELSE IF isOutgoing(node)
  THEN [ did |-> "outgoing", queue |-> queue, seen |-> seen ]
  ELSE LET timestamp == extractTimestamp(node)
           messageKey == extractMessageKey(node, TimeText(node.time), node.text)
           dedupeKey == messageKey \o << PIPE >> \o TimestampText(timestamp)
                          \o << PIPE >> \o node.text
       IN  IF dedupeKey \in seen
           THEN [ did |-> "seen", queue |-> queue, seen |-> seen ]
           ELSE [ did |-> "pushed",
                  queue |-> Append(queue, [ text |-> node.text, timestamp |-> timestamp,
                                            messageKey |-> messageKey,
                                            marker |-> MarkerOf(node) ]),
                  seen |-> seen \cup { dedupeKey } ]

\* The added nodes the page delivers at clock value t.
IdM1 == << 109, 49 >>                          \* data-id "m1"
TextGhabat == << 1594, 1575, 1576, 1578 >>   \* TextGhab with one more letter rendered
TextShort == << 1594, 1575 >>

\* a bracketed date of the minute before t (a relative marker at the epoch)
OldTime(t) ==
  IF FloorToMinute(t) > MinuteMs THEN Bracket(FloorToMinute(t) - MinuteMs) ELSE Relative

DomNodes(t) ==
  \* incoming messages stamped with the current minute
  { Node("element", TRUE, IdM1, x, FALSE, FALSE, Bracket(FloorToMinute(t))) :
      x \in { TextGhab, TextGhabat, TextPlain } }
  \cup
  { Node("element", TRUE, << >>, TextGhab, FALSE, FALSE, Bracket(FloorToMinute(t))) }
  \cup
  \* incoming messages with an old, relative, unparseable or missing timestamp
  { Node("element", TRUE, IdM1, TextGhab, FALSE, FALSE, tm) :
      tm \in { OldTime(t), Relative, Garbage, NoTimeElement } }
  \cup
  \* outgoing messages: the marker on the container itself or on an ancestor
  { Node("element", TRUE, IdM1, x, c, TRUE, tm) :
      x \in { TextGhab, TextPlain }, c \in BOOLEAN,
      tm \in { Bracket(FloorToMinute(t)), Relative } }
  \cup
  { Node("element", TRUE, IdM1, TextShort, FALSE, FALSE, Bracket(FloorToMinute(t))),
    Node("element", FALSE, << >>, << >>, FALSE, FALSE, NoTimeElement),
    Node("text", FALSE, << >>, << >>, FALSE, FALSE, NoTimeElement) }

\* The MutationObserver callback runs processNode on an added node.
MutationUpTo(node, limit) ==
  /\ observing
  /\ nMutations < limit
  /\ LET r == processNode(node, messageQueue, seenMessageKeys)
     IN  /\ messageQueue' = r.queue
         /\ seenMessageKeys' = r.seen
         /\ outgoingSeen' = (outgoingSeen \/ r.did = "outgoing")
  /\ nMutations' = nMutations + 1
  /\ UNCHANGED << alarm, system, now, config, watcherVars, observing, pollInterval, tasks, calls, probe >>

Mutation(node) == MutationUpTo(node, MaxMutations)

\* ------------------------------------------------------- watcher life cycle
\* MessageWatcher.initialize succeeds: the observer is injected.
Initialize ==
  /\ ~observerActive /\ ~observing
  /\ observing' = TRUE
  /\ messageQueue' = << >>
  /\ observerActive' = TRUE
  /\ UNCHANGED << alarm, system, now, config, startupTime, detectedHashes, seenMessageKeys,
                  nMutations, outgoingSeen, pollInterval, tasks, calls, probe >>

\* MessageWatcher.startPolling: setInterval
StartPolling ==
  /\ observerActive
  /\ pollInterval = "null"
  /\ pollInterval' = "armed"
  /\ UNCHANGED << alarm, system, now, config, watcherVars, pageVars, tasks, calls, probe >>

\* The interval fires: the tick asks the page for the queue length and, when
\* the page answers that the queue is not empty, goes on to processNewMessages.
\* t is the first free activation slot.
PollTick(t) ==
  /\ pollInterval = "armed"
  /\ tasks[t].pc = "idle"
  /\ \A u \in 1..(t - 1) : tasks[u].pc # "idle"
  /\ tasks' = [tasks EXCEPT ![t].pc = IF Len(messageQueue) > 0 THEN "drain" ELSE "idle"]
  /\ UNCHANGED << alarm, system, now, config, watcherVars, pageVars, pollInterval, calls, probe >>

\* The page round trip of processNewMessages throws before the page ran it:
\* caught in processNewMessages and logged, the tick ends.
DrainFails(t) ==
  /\ tasks[t].pc = "drain"
  /\ tasks' = [tasks EXCEPT ![t] = IdleTask]
  /\ UNCHANGED << alarm, system, now, config, watcherVars, pageVars, pollInterval, calls, probe >>

\* processNewMessages: the page hands over the queue and clears it; the
\* messages are handled in order.
ProcessNewMessages(t) ==
  /\ tasks[t].pc = "drain"
  /\ messageQueue' = << >>
  /\ Resume(t, ProcessFrom(messageQueue, 1, detectedHashes, calls, startupTime, now, config))
  /\ UNCHANGED << alarm, system, now, config, startupTime, observerActive, observing, seenMessageKeys,
                  nMutations, outgoingSeen, pollInterval, probe >>

Init == \E t \in StartTimes : Constructed(t, DefaultConfig)

Next ==
  \/ ClockTick
  \/ Initialize
  \/ StartPolling
  \/ \E node \in DomNodes(now) : Mutation(node)
  \/ \E t \in 1..NumPollers :
        \/ PollTick(t)
        \/ DrainFails(t)
        \/ ProcessNewMessages(t)
        \/ TriggerAlarm(t, "Mom")

Spec == Init /\ [][Next]_vars

\* ------------------------------------------- three observations, two ticks
MaxPushes == 3

\* incoming messages stamped with the current minute, with and without keyword
OrderNodes(t) ==
  { Node("element", TRUE, IdM1, x, FALSE, FALSE, Bracket(FloorToMinute(t))) :
      x \in { TextGhab, TextGhabat, TextPlain } }

NextOrder ==
  \/ ClockTick
  \/ Initialize
  \/ StartPolling
  \/ \E node \in OrderNodes(now) : MutationUpTo(node, MaxPushes)
  \/ \E t \in 1..NumPollers :
        \/ PollTick(t)
        \/ DrainFails(t)
        \/ ProcessNewMessages(t)
        \/ TriggerAlarm(t, "Mom")

SpecOrder == Init /\ [][NextOrder]_vars

\* ------------------------------------- polling that goes on, pages that answer
NextLive ==
  \/ ClockTick
  \/ Initialize
  \/ StartPolling
  \/ \E node \in OrderNodes(now) : Mutation(node)
  \/ \E t \in 1..NumPollers :
        \/ PollTick(t)
        \/ DrainFails(t)
        \/ ProcessNewMessages(t)
        \/ TriggerAlarm(t, "Mom")

\* activation t waits for the page to hand over the queue: exactly then a
\* step of ProcessNewMessages(t) is possible, and it changes tasks[t].pc
AwaitsDrain(t) == tasks[t].pc = "drain"

\* activation t waits for the page's answer to the chat-name lookup: exactly
\* then a step of TriggerAlarm(t, ..) is possible, and it changes calls
AwaitsChatName(t) == tasks[t].pc = "chat2"

\* setInterval keeps firing the tick (weak fairness).  A page round trip that
\* is tried again and again succeeds in the end: strong fairness of
\* ProcessNewMessages(t), written out with its enabling condition.  The page
\* answers the chat-name lookup: weak fairness of TriggerAlarm(t, ..),
\* written out likewise.
LiveFairness ==
  \A t \in 1..NumPollers :
    /\ WF_vars(PollTick(t))
    /\ (<>[]~AwaitsDrain(t)) \/ ([]<><< ProcessNewMessages(t) >>_vars)
    /\ ([]<>~AwaitsChatName(t)) \/ ([]<><< TriggerAlarm(t, "Mom") >>_vars)

SpecLive == Init /\ [][NextLive]_vars /\ LiveFairness

\* ------------------------------------------ failures and the end of the watch
\* fault: handleMessage has no catch; the exception reaches the catch of
\* processNewMessages, which ends the batch
HandleMessageCaughtMutant(batch, idx, hashes, log, startup, clock, cfg) ==
  [ task |-> IdleTask, hashes |-> hashes, log |-> log ]

\* handleMessage(batch[idx]) threw: its catch logs the error, the call
\* resolves and the loop of processNewMessages goes on with the next message
HandleMessageCaught(batch, idx, hashes, log, startup, clock, cfg) ==
  ProcessFrom(batch, idx + 1, hashes, log, startup, clock, cfg)

\* the history once call c has thrown out of onMessageDetected at clock
ThrownBy(c, chatName, clock) ==
  [calls EXCEPT ![c].chatName = chatName, ![c].verdict = "threw", ![c].emitAt = clock]

\* _triggerAlarm advances the watermark and calls onMessageDetected, which
\* throws.
TriggerAlarmThrows(t, chatName) ==
  /\ tasks[t].pc = "chat2"
  /\ startupTime' = WatermarkAfterDetection(now, calls[tasks[t].call])
  /\ Resume(t, HandleMessageCaught(tasks[t].batch, tasks[t].idx, detectedHashes,
                                   ThrownBy(tasks[t].call, chatName, now),
                                   now, now, config))
  /\ UNCHANGED << alarm, system, now, config, observerActive, pageVars, pollInterval, probe >>

NextThrow ==
  \/ ClockTick
  \/ Initialize
  \/ StartPolling
  \/ \E node \in DomNodes(now) : Mutation(node)
  \/ \E t \in 1..NumPollers :
        \/ PollTick(t)
        \/ DrainFails(t)
        \/ ProcessNewMessages(t)
        \/ TriggerAlarm(t, "Mom")
        \/ TriggerAlarmThrows(t, "Mom")

SpecThrow == Init /\ [][NextThrow]_vars

\* fault: the cache is kept
ClearMutant(hashes) == hashes

\* Map.prototype.clear
clear(hashes) == << >>

\* the handleMessage calls that wait for the page (the chat-name lookup)
InFlight == { tasks[t].call : t \in { u \in 1..NumPollers : tasks[u].pc \in { "chat1", "chat2" } } }

\* how many times cleanup() has run
Cleanups == IF probe.fn = "cleanup" THEN probe.n ELSE 0

\* MessageWatcher.cleanup; the record keeps the number of calls,
\* whether one of them dropped entries of the cache, and the handleMessage
\* calls that were waiting for the page when one of them ran
Cleanup ==
  /\ Cleanups < MaxCleanups
  /\ observerActive' = FALSE
  /\ detectedHashes' = clear(detectedHashes)
  /\ probe' = [ fn |-> "cleanup", n |-> Cleanups + 1,
                dropped |-> \/ detectedHashes # << >>
                            \/ (probe.fn = "cleanup" /\ probe.dropped),
                inflight |-> InFlight \cup
                               IF probe.fn = "cleanup" THEN probe.inflight ELSE {} ]
  /\ UNCHANGED << alarm, system, now, config, startupTime, pageVars, pollInterval, tasks, calls >>

NextLife ==
  \/ ClockTick
  \/ Initialize
  \/ StartPolling
  \/ \E node \in DomNodes(now) : Mutation(node)
  \/ \E t \in 1..NumPollers :
        \/ PollTick(t)
        \/ DrainFails(t)
        \/ ProcessNewMessages(t)
        \/ TriggerAlarm(t, "Mom")
  \/ Cleanup

SpecLife == Init /\ [][NextLife]_vars

\* ------------------------------------------- the page state across resets
\* fault: every injection starts with an empty seen set
SeenAfterInjectionMutant(seen) == {}

\* _injectObserver: window.__seenMessageKeys = window.__seenMessageKeys || new Set()
SeenAfterInjection(seen) == seen

\* MessageWatcher.initialize is called again on the same page: the observer
\* is injected once more.
Reinject ==
  /\ observing
  /\ messageQueue' = << >>
  /\ seenMessageKeys' = SeenAfterInjection(seenMessageKeys)
  /\ observerActive' = TRUE
  /\ UNCHANGED << alarm, system, now, config, startupTime, detectedHashes, observing,
                  nMutations, outgoingSeen, pollInterval, tasks, calls, probe >>

\* MessageWatcher.resetAfterAlarmStop: window.__messageQueue = []
ResetAfterAlarmStop ==
  /\ observing
  /\ messageQueue' = << >>
  /\ UNCHANGED << alarm, system, now, config, startupTime, observerActive, detectedHashes,
                  observing, seenMessageKeys, nMutations, outgoingSeen, pollInterval,
                  tasks, calls, probe >>

NextSeen ==
  \/ ClockTick
  \/ Initialize
  \/ ResetAfterAlarmStop
  \/ Reinject
  \/ StartPolling
  \/ \E node \in OrderNodes(now) : Mutation(node)
  \/ \E t \in 1..NumPollers :
        \/ PollTick(t)
        \/ ProcessNewMessages(t)
        \/ TriggerAlarm(t, "Mom")
  \/ Cleanup

SpecSeen == Init /\ [][NextSeen]_vars

\* ---------------------------------------------------- start of the system
\* fault: the flag is raised before the observer is injected
InitializeMutant(injected, active) ==
  [ ret |-> injected, observerActive |-> TRUE ]

\* MessageWatcher.initialize: what it returns and the flag it leaves when
\* _injectObserver has resolved (injected) or has thrown
initialize(injected, active) ==
  [ ret |-> injected, observerActive |-> IF injected THEN TRUE ELSE active ]

\* the flag and the record of the caller after initialize returned r
Initialized(r, injected) ==
  /\ observerActive' = r.observerActive
  /\ probe' = [ fn |-> "_initializeWatcher", injected |-> injected,
                watcherReady |-> r.ret ]

\* WhatsAppAlarmSystem._initializeWatcher: `await this.watcher.initialize()`.
\* The page round trip of _injectObserver resolves, or throws; when it throws
\* the page may or may not have run the script (ran).
InitializeWatcher(injected, ran) ==
  /\ probe = NoProbe
  /\ ~observerActive /\ ~observing
  /\ injected => ran
  /\ observing' = ran
  /\ messageQueue' = << >>
  /\ Initialized(initialize(injected, observerActive), injected)
  /\ UNCHANGED << alarm, system, now, config, startupTime, detectedHashes, seenMessageKeys,
                  nMutations, outgoingSeen, pollInterval, tasks, calls >>

\* WhatsAppAlarmSystem._startMonitoring, reached by start() only when
\* _initializeWatcher did not throw
StartMonitoring ==
  /\ probe.fn = "_initializeWatcher" /\ probe.watcherReady
  /\ pollInterval = "null"
  /\ pollInterval' = "armed"
  /\ UNCHANGED << alarm, system, now, config, watcherVars, pageVars, tasks, calls, probe >>

NextStart ==
  \/ ClockTick
  \/ \E injected, ran \in BOOLEAN : InitializeWatcher(injected, ran)
  \/ StartMonitoring
  \/ \E node \in DomNodes(now) : Mutation(node)
  \/ \E t \in 1..NumPollers :
        \/ PollTick(t)
        \/ DrainFails(t)
        \/ ProcessNewMessages(t)
        \/ TriggerAlarm(t, "Mom")

SpecStart == Init /\ [][NextStart]_vars

\* ------------------------------------------------- failing page round trips
\* fault: the error is not caught; the rejection ends the process and the
\* interval with it
AfterPollingErrorMutant(interval) == "null"

\* the interval after a page round trip of the tick threw: the catch of
\* processNewMessages, or the one of the interval callback, only logs
AfterPollingError(interval) == interval

\* The page round trip of processNewMessages throws before the page ran it;
\* the record keeps how many candidates had been handled by then.
PollingError(t) ==
  /\ tasks[t].pc = "drain"
  /\ tasks' = [tasks EXCEPT ![t] = IdleTask]
  /\ pollInterval' = AfterPollingError(pollInterval)
  /\ probe' = [ fn |-> "pollingError", handled |-> Len(calls) ]
  /\ UNCHANGED << alarm, system, now, config, watcherVars, pageVars, calls >>

NextPoll ==
  \/ ClockTick
  \/ Initialize
  \/ StartPolling
  \/ \E node \in DomNodes(now) : Mutation(node)
  \/ \E t \in 1..NumPollers :
        \/ PollTick(t)
        \/ PollingError(t)
        \/ ProcessNewMessages(t)
        \/ TriggerAlarm(t, "Mom")

SpecPoll == Init /\ [][NextPoll]_vars

\* ------------------------------------------------------------ the alarm
\* AlarmSystem._playOnce (the sound file exists): a process is spawned unless
\* isCurrentlyPlaying
_playOnce(a) ==
  IF a.isCurrentlyPlaying THEN a
  ELSE [a EXCEPT !.isCurrentlyPlaying = TRUE,
                 !.audioProcess = a.spawned + 1,
                 !.spawned = a.spawned + 1,
                 !.alive = a.alive \cup { a.spawned + 1 }]

\* AlarmSystem._setupLoop, after _playOnce left the alarm as played
LoopArmed(played) ==
  [played EXCEPT !.loopInterval = "armed", !.loops = played.loops + 1]

\* AlarmSystem._setupLoopIfEnabled
_setupLoopIfEnabled(a, cfg) ==
  IF cfg.loop THEN LoopArmed(_playOnce(a)) ELSE a

\* fault: a timer is armed also for autoStopMs = 0
AutoStopConfiguredMutant(ms) == ms >= 0

\* the test of _setupAutoStopIfConfigured
AutoStopConfigured(ms) == ms > 0

\* AlarmSystem._setupAutoStopIfConfigured: setTimeout(() => this.stop(), ms)
_setupAutoStopIfConfigured(a, cfg, clock) ==
  IF AutoStopConfigured(cfg.autoStopMs)
  THEN [a EXCEPT !.autoStops = a.autoStops \cup { clock + cfg.autoStopMs }]
  ELSE a

\* fault: start does not test isPlaying
StartMutant(a, cfg, clock) ==
  _setupAutoStopIfConfigured(
    _setupLoopIfEnabled([a EXCEPT !.isPlaying = TRUE, !.startedAt = clock], cfg),
    cfg, clock)

\* AlarmSystem.start; cfg is config.alarm
start(a, cfg, clock) ==
  IF a.isPlaying THEN a
  ELSE _setupAutoStopIfConfigured(
         _setupLoopIfEnabled([a EXCEPT !.isPlaying = TRUE, !.startedAt = clock], cfg),
         cfg, clock)

\* AlarmSystem.stop, called by `by`.  The killed processes deliver their exit
\* events later.
stop(a, by) ==
  IF ~a.isPlaying THEN a
  ELSE [a EXCEPT !.isPlaying = FALSE,
                 !.isCurrentlyPlaying = FALSE,
                 !.loopInterval = "null",
                 !.loops = IF a.loopInterval = "armed" THEN a.loops - 1 ELSE a.loops,
                 !.audioProcess = 0,
                 !.killed = a.alive,
                 !.stoppedBy = by]

watchVars == << startupTime, observerActive, detectedHashes, observing, messageQueue,
                seenMessageKeys, pollInterval, tasks, calls, nMutations,
                outgoingSeen, probe >>

\* WhatsAppAlarmSystem.onKeywordDetected: the watcher reports a detection and
\* alarm.start() runs
OnKeywordDetected ==
  /\ system.pc = "running"
  /\ alarm.spawned < MaxSpawns
  /\ alarm' = start(alarm, config.alarm, now)
  /\ UNCHANGED << now, config, watchVars, system >>

\* the loop interval fires: `if (this.isPlaying) await this._playOnce()`
LoopTick ==
  /\ system.pc # "exited"
  /\ alarm.loops > 0
  /\ alarm.spawned < MaxSpawns
  /\ alarm' = IF alarm.isPlaying THEN _playOnce(alarm) ELSE alarm
  /\ UNCHANGED << now, config, watchVars, system >>

\* the exit event of audio process p is delivered (its sleep is over, or it
\* was killed)
AudioExit(p) ==
  /\ system.pc # "exited"
  /\ p \in alarm.alive
  /\ alarm' = [alarm EXCEPT !.alive = alarm.alive \ { p },
                             !.killed = alarm.killed \ { p },
                             !.isCurrentlyPlaying = FALSE]
  /\ UNCHANGED << now, config, watchVars, system >>

\* an auto-stop timer is due: () => this.stop()
AutoStopFires(due) ==
  /\ system.pc # "exited"
  /\ due \in alarm.autoStops
  /\ due <= now
  /\ alarm' = stop([alarm EXCEPT !.autoStops = alarm.autoStops \ { due }], "autoStop")
  /\ UNCHANGED << now, config, watchVars, system >>

\* setupKeyboardListener: ESC
EscPressed ==
  /\ system.pc = "running"
  /\ alarm' = stop(alarm, "esc")
  /\ UNCHANGED << now, config, watchVars, system >>

\* WhatsAppAlarmSystem.shutdown up to the return of alarm.cleanup()
ShutdownStopsAlarm ==
  /\ system.pc = "running"
  /\ system.isRunning
  /\ system' = [system EXCEPT !.isRunning = FALSE, !.pc = "alarmStopped"]
  /\ alarm' = stop(alarm, "shutdown")
  /\ UNCHANGED << now, config, watchVars >>

\* time passes while the system runs
AlarmClockTick ==
  /\ now < MaxTime
  /\ now' = now + 1
  /\ UNCHANGED << config, watchVars, alarm, system >>

AlarmConfigs ==
  { [ DefaultConfig EXCEPT !.alarm = [ loop |-> l, autoStopMs |-> ms ] ] :
      l \in BOOLEAN, ms \in { 0, 2 } }

\* start() has succeeded: the system runs
InitAlarm ==
  /\ \E cfg \in AlarmConfigs : Built(MinuteMs, cfg)
  /\ system = [ SystemConstructed EXCEPT !.isRunning = TRUE, !.pc = "running",
                                           !.browser = "open" ]

NextAlarm ==
  \/ AlarmClockTick
  \/ OnKeywordDetected
  \/ LoopTick
  \/ \E p \in 1..MaxSpawns : AudioExit(p)
  \/ \E due \in 0..(MaxTime + 2) : AutoStopFires(due)
  \/ EscPressed
  \/ ShutdownStopsAlarm

SpecAlarm == InitAlarm /\ [][NextAlarm]_vars

\* ------------------------------------------------- start and shutdown
\* start(): _initializeAlarm and _initializeBrowser have succeeded
LaunchBrowser ==
  /\ system.pc = "new"
  /\ system' = [system EXCEPT !.pc = "browser", !.browser = "open"]
  /\ UNCHANGED << now, config, watchVars, alarm >>

\* start(): _initializeWatcher; it throws when initialize() returns false
SystemInitializeWatcher(injected) ==
  /\ system.pc = "browser"
  /\ observerActive' = initialize(injected, observerActive).observerActive
  /\ observing' = injected
  /\ messageQueue' = << >>
  /\ system' = [system EXCEPT !.pc = IF initialize(injected, observerActive).ret
                                      THEN "watcher" ELSE "failed"]
  /\ UNCHANGED << now, config, startupTime, detectedHashes, seenMessageKeys,
                  pollInterval, tasks, calls, nMutations, outgoingSeen, probe, alarm >>

\* start(): _startMonitoring
SystemStartMonitoring ==
  /\ system.pc = "watcher"
  /\ pollInterval' = "armed"
  /\ system' = [system EXCEPT !.pc = "monitoring", !.isRunning = TRUE]
  /\ UNCHANGED << now, config, watcherVars, pageVars, tasks, calls, probe, alarm >>

\* start(): _printReadyMessage and _setupEventHandlers return, or throw
\* (process.stdin.setRawMode without a terminal)
SetupEventHandlers(ok) ==
  /\ system.pc = "monitoring"
  /\ system' = [system EXCEPT !.pc = IF ok THEN "running" ELSE "failed"]
  /\ UNCHANGED << now, config, watchVars, alarm >>

\* the catch of start(): `await this.shutdown(); process.exit(EXIT_FAILURE)`.
\* shutdown() returns at once when isRunning is false, and the process exits;
\* otherwise it goes on as a shutdown of the running system.
StartFails ==
  /\ system.pc = "failed"
  /\ system' = IF system.isRunning
                THEN [system EXCEPT !.isRunning = FALSE, !.pc = "alarmStopped"]
                ELSE [system EXCEPT !.pc = "exited", !.exit = 1]
  /\ alarm' = IF system.isRunning THEN stop(alarm, "shutdown") ELSE alarm
  /\ UNCHANGED << now, config, watchVars >>

\* shutdown(): clearInterval(this.pollInterval) and watcher.cleanup()
ShutdownCleansUp ==
  /\ system.pc = "alarmStopped"
  /\ pollInterval' = "null"
  /\ observerActive' = FALSE
  /\ detectedHashes' = clear(detectedHashes)
  /\ system' = [system EXCEPT !.pc = "closing"]
  /\ UNCHANGED << now, config, startupTime, pageVars, tasks, calls, probe, alarm >>

\* shutdown(): browserManager.close() has returned; process.exit(EXIT_SUCCESS)
ShutdownExits ==
  /\ system.pc = "closing"
  /\ system' = [system EXCEPT !.pc = "exited", !.browser = "closed", !.exit = 0]
  /\ UNCHANGED << now, config, watchVars, alarm >>

InitSystem == \E cfg \in AlarmConfigs : Constructed(MinuteMs, cfg)

NextSystem ==
  \/ LaunchBrowser
  \/ \E injected \in BOOLEAN : SystemInitializeWatcher(injected)
  \/ SystemStartMonitoring
  \/ \E ok \in BOOLEAN : SetupEventHandlers(ok)
  \/ StartFails
  \/ AlarmClockTick
  \/ OnKeywordDetected
  \/ LoopTick
  \/ \E p \in 1..MaxSpawns : AudioExit(p)
  \/ \E due \in 0..(MaxTime + 2) : AutoStopFires(due)
  \/ EscPressed
  \/ ShutdownStopsAlarm
  \/ ShutdownCleansUp
  \/ ShutdownExits

SpecSystem == InitSystem /\ [][NextSystem]_vars

\* ------------------------------------------ a detection in flight at shutdown
\* handleMessage has matched a keyword and awaits the page for the chat name
\* of the event payload (activation 1 of the tick)
MatchAwaitsChatName ==
  /\ system.pc = "running"
  /\ tasks[1].pc = "idle"
  /\ alarm.spawned < MaxSpawns
  /\ tasks' = [tasks EXCEPT ![1].pc = "chat2"]
  /\ UNCHANGED << now, config, startupTime, observerActive, detectedHashes, pageVars,
                  pollInterval, calls, probe, alarm, system >>

\* the lookup returns (a name, or "Unknown" when the page is gone):
\* _triggerAlarm advances the watermark and calls onKeywordDetected, which
\* runs alarm.start()
InFlightDetection ==
  /\ system.pc # "exited"
  /\ tasks[1].pc = "chat2"
  /\ tasks' = [tasks EXCEPT ![1] = IdleTask]
  /\ startupTime' = now
  /\ alarm' = start(alarm, config.alarm, now)
  /\ UNCHANGED << now, config, observerActive, detectedHashes, pageVars, pollInterval,
                  calls, probe, system >>

NextShutdown ==
  \/ AlarmClockTick
  \/ MatchAwaitsChatName
  \/ InFlightDetection
  \/ LoopTick
  \/ \E p \in 1..MaxSpawns : AudioExit(p)
  \/ \E due \in 0..(MaxTime + 2) : AutoStopFires(due)
  \/ EscPressed
  \/ ShutdownStopsAlarm
  \/ ShutdownCleansUp
  \/ ShutdownExits

SpecShutdown == InitAlarm /\ [][NextShutdown]_vars

\* ------------------------------------------------ the recency filter alone
Timestamps == { NoTimestamp } \cup 0..(MaxTime + MinuteMs)

\* _isRecentMessage(ts) is applied to the watcher's current watermark and clock
ProbeIsRecentMessage(ts) ==
  /\ probe' = [ fn |-> "_isRecentMessage", timestamp |-> ts, startup |-> startupTime,
                clock |-> now, result |-> _isRecentMessage(ts, startupTime, now) ]
  /\ UNCHANGED << alarm, system, now, config, watcherVars, pageVars, pollInterval, tasks, calls >>

InitRecent == \E t \in 1..MaxTime : Constructed(t, DefaultConfig)

NextRecent ==
  \/ ClockTick
  \/ \E ts \in Timestamps : ProbeIsRecentMessage(ts)

SpecRecent == InitRecent /\ [][NextRecent]_vars

\* ------------------------------------------------------ the chat filter alone
ChatConfigs ==
  { [ DefaultConfig EXCEPT !.chatFilter =
        [ enabled |-> e, mode |-> m, whitelistedChats |-> w ] ] :
      e \in BOOLEAN, m \in { "whitelist", "active" },
      w \in { << "Mom" >>, << "Mom", "Work Group", "Family" >> } }

ChatMessages == Messages({ TextGhab, TextGhiyab }, { MinuteMs }, { NoKey })

ProbeIsChatAllowed(chatName) ==
  /\ probe' = [ fn |-> "_isChatAllowed", chatName |-> chatName,
                result |-> _isChatAllowed(chatName, config) ]
  /\ UNCHANGED << alarm, system, now, config, watcherVars, pageVars, pollInterval, tasks, calls >>

InitChat == \E cfg \in ChatConfigs : Constructed(MinuteMs, cfg)

NextChat ==
  \/ \E chatName \in ChatNames : ProbeIsChatAllowed(chatName)
  \/ \E msg \in ChatMessages : CallHandleMessage(msg)
  \/ \E chatName \in ChatNames : ShouldFilterByChat(1, chatName)
  \/ \E chatName \in ChatNames : TriggerAlarm(1, chatName)

SpecChat == InitChat /\ [][NextChat]_vars

\* -------------------------------------------------- the keyword matcher alone
\* ghain, alef, beh, tatweel, "A", "a"
Alphabet == { 1594, 1575, 1576, TATWEEL, 65, 97 }

RECURSIVE TextsOfLength(_)
TextsOfLength(n) ==
  IF n = 0 THEN { << >> }
  ELSE { Append(x, c) : x \in TextsOfLength(n - 1), c \in Alphabet }

Texts == UNION { TextsOfLength(n) : n \in 0..MaxTextLen }

TextAlGhiyab == << 1575, 1604, 1594, 1610, 1575, 1576 >>   \* keywords 1 and 3

\* keyword lists: the configured one, one whose first keyword is written with
\* a tatweel, one with Latin letters in both cases
KeywordLists ==
  { ConfigKeywords,
    << << 1594, TATWEEL, 1575 >>, << 1594, 1575 >>, << 1575, 1576 >> >>,
    << << 65, 1576 >>, << 97 >> >> }

MatchConfigs ==
  { [ DefaultConfig EXCEPT !.keywords = k, !.caseSensitive = c ] :
      k \in KeywordLists, c \in BOOLEAN }

MatchMessages == Messages({ TextGhab, TextAlGhiyab }, { MinuteMs }, { NoKey })

\* _findMatchedKeyword(text) is applied, once in a behaviour
ProbeFindMatchedKeyword(text) ==
  /\ probe = NoProbe
  /\ probe' = [ fn |-> "_findMatchedKeyword", text |-> text,
                result |-> _findMatchedKeyword(text, config) ]
  /\ UNCHANGED << alarm, system, now, config, watcherVars, pageVars, pollInterval, tasks, calls >>

InitMatch == \E cfg \in MatchConfigs : Constructed(MinuteMs, cfg)

NextMatch ==
  \/ \E text \in Texts : ProbeFindMatchedKeyword(text)
  \/ \E msg \in MatchMessages : CallHandleMessage(msg)
  \/ TriggerAlarm(1, "Mom")

SpecMatch == InitMatch /\ [][NextMatch]_vars

\* --------------------------------- keyword lists holding a non-string entry
\* config.detection.keywords is used as configured: the number 7 beside "ghab"
MalformedKeywordLists ==
  { << << -7 >>, << 1594, 1575, 1576 >> >>,
    << << 1594, 1575, 1576 >>, << -7 >> >>,
    << << 1575, 1576 >>, << -7 >>, << 1594, 1575 >> >> }

MalformedConfigs ==
  { [ DefaultConfig EXCEPT !.keywords = k, !.caseSensitive = c,
                           !.wholeWordMatch = w ] :
      k \in MalformedKeywordLists, c \in BOOLEAN, w \in BOOLEAN }

InitMalformed == \E cfg \in MalformedConfigs : Constructed(MinuteMs, cfg)

SpecMalformed == InitMalformed /\ [][NextMatch]_vars

\* ------------------------------------------------- whole-word matching alone
\* ghain, alef, space, ".", the Arabic comma
WordAlphabet == { 1594, 1575, 32, 46, 1548 }

RECURSIVE WordTextsOfLength(_)
WordTextsOfLength(n) ==
  IF n = 0 THEN { << >> }
  ELSE { Append(x, c) : x \in WordTextsOfLength(n - 1), c \in WordAlphabet }

WordTexts == UNION { WordTextsOfLength(n) : n \in 0..MaxTextLen }

WordKeywordLists ==
  { << << 1594 >> >>,
    << << 1594, 1575 >> >>,
    << << 46 >> >>,
    << << 1575 >>, << 1594, TATWEEL >> >> }

\* matchKeywords(text, keywords, options) is applied in both modes, once in a
\* behaviour
ProbeMatchKeywords(text, keywords) ==
  /\ probe = NoProbe
  /\ probe' = [ fn |-> "matchKeywords", text |-> text, keywords |-> keywords,
                whole |-> matchKeywords(text, keywords,
                            [ caseSensitive |-> config.caseSensitive,
                              wholeWordMatch |-> TRUE ]),
                substring |-> matchKeywords(text, keywords,
                                [ caseSensitive |-> config.caseSensitive,
                                  wholeWordMatch |-> FALSE ]) ]
  /\ UNCHANGED << alarm, system, now, config, watcherVars, pageVars, pollInterval, tasks, calls >>

InitWord == Constructed(MinuteMs, DefaultConfig)

NextWord == \E text \in WordTexts, keywords \in WordKeywordLists :
               ProbeMatchKeywords(text, keywords)

SpecWord == InitWord /\ [][NextWord]_vars

\* ------------------------------------ keywords that normalize to nothing
\* a tatweel, a soft hyphen with a tatweel, a zero-width space
EmptyKeywordLists ==
  { << << TATWEEL >> >>, << << SOFT_HYPHEN, TATWEEL >> >>, << << 8203 >> >> }

NextEmptyKeyword ==
  \E text \in Texts, keywords \in EmptyKeywordLists : ProbeMatchKeywords(text, keywords)

SpecEmptyKeyword == InitWord /\ [][NextEmptyKeyword]_vars

\* ---------------------------------------------------- the normalizer alone
\* alef, madda above, hamza above, tatweel, zero-width space, soft hyphen
NormalizeAlphabet == { 1575, 1619, 1620, TATWEEL, 8203, SOFT_HYPHEN }

RECURSIVE NormalizeTextsOfLength(_)
NormalizeTextsOfLength(n) ==
  IF n = 0 THEN { << >> }
  ELSE { Append(x, c) : x \in NormalizeTextsOfLength(n - 1), c \in NormalizeAlphabet }

NormalizeTexts == UNION { NormalizeTextsOfLength(n) : n \in 0..MaxTextLen }

\* normalizeArabicText is applied to text and to its own result, once in a
\* behaviour
ProbeNormalize(text) ==
  /\ probe = NoProbe
  /\ probe' = [ fn |-> "normalizeArabicText", text |-> text,
                once |-> normalizeArabicText(text),
                twice |-> normalizeArabicText(normalizeArabicText(text)) ]
  /\ UNCHANGED << alarm, system, now, config, watcherVars, pageVars, pollInterval, tasks, calls >>

NextNormalize == \E text \in NormalizeTexts : ProbeNormalize(text)

SpecNormalize == InitWord /\ [][NextNormalize]_vars

\* ---------------------------------------------- filling the duplicate cache
TextBala == << 1576, 1604, 1609 >>           \* contains no keyword
TextLaysa == << 1604, 1610, 1587 >>          \* contains no keyword

\* messages of the current minute that match no keyword
CacheMessages(t) ==
  Messages({ TextPlain, TextBala, TextLaysa }, { FloorToMinute(t) }, { NoKey, KeyM1 })

FillCache(msg) == HandleMessageCall(msg, MaxInserts)

NextCache ==
  \/ ClockTick
  \/ \E msg \in CacheMessages(now) : FillCache(msg)

SpecCache == InitHandle /\ [][NextCache]_vars

\* -------------------------------- candidates that differ in their identity
KeyM2 == << 105, 100, 58, 109, 50 >>         \* "id:m2"

DuplicateMessages ==
  Messages({ TextGhab, TextPlain }, { MinuteMs }, { NoKey, KeyM1, KeyM2 })

NextDuplicate ==
  \/ ClockTick
  \/ \E msg \in DuplicateMessages : FillCache(msg)
  \/ TriggerAlarm(1, "Mom")

SpecDuplicate == InitHandle /\ [][NextDuplicate]_vars

\* ------------------------------------------------------------ claim helpers
SameCandidate(a, b) ==
  a.text = b.text /\ a.timestamp = b.timestamp /\ a.messageKey = b.messageKey

\* the call passed the recency filter and the duplicate check, so that
\* _isDuplicate recorded its fingerprints at time `at`
Recorded(c) == c.verdict \in { "nomatch", "matched", "filtered", "emitted" }

\* the call produces a detection event (emitted, or waiting for the page's
\* answer to the chat-name lookup of the payload)
Detects(c) == c.verdict \in { "matched", "emitted" }

\* at call j the duplicate window of its text+timestamp fingerprint is over
WindowOver(j) ==
  \A k \in 1..(j - 1) :
     (Recorded(calls[k]) /\ calls[k].text = calls[j].text
                          /\ calls[k].timestamp = calls[j].timestamp)
       => calls[j].at - calls[k].at >= duplicateCacheTTL

\* C1 (as stated): with duplicate protection on and the chat filter off, a
\* candidate fed again less than duplicateCacheTTL after a feed of it that
\* produced a detection is dropped by _isDuplicate.
C1_SecondDroppedByIsDuplicate ==
  (config.enableDuplicateProtection /\ ~config.chatFilter.enabled) =>
    \A i, j \in DOMAIN calls :
       (i < j /\ SameCandidate(calls[i], calls[j]) /\ Detects(calls[i])
              /\ calls[j].at - calls[i].at < duplicateCacheTTL)
         => calls[j].verdict = "duplicate"

\* C1 (amended): the second feed within duplicateCacheTTL emits nothing: it is
\* dropped by _isDuplicate, or already by the recency filter when the first
\* detection moved the watermark past the minute of the candidate's timestamp.
C1_ExactlyOneDetectionWithinTTL ==
  (config.enableDuplicateProtection /\ ~config.chatFilter.enabled) =>
    \A i, j \in DOMAIN calls :
       (i < j /\ SameCandidate(calls[i], calls[j]) /\ Detects(calls[i])
              /\ calls[j].at - calls[i].at < duplicateCacheTTL)
         => \/ calls[j].verdict = "duplicate"
            \/ /\ calls[j].verdict = "old"
               /\ calls[j].timestamp < StartupFloorTime(calls[j].startup)

C1_Witness ==
  \E i, j \in DOMAIN calls :
     /\ i < j /\ SameCandidate(calls[i], calls[j])
     /\ calls[i].verdict = "emitted"
     /\ calls[j].at - calls[i].at < duplicateCacheTTL
     /\ calls[j].verdict = "duplicate"

\* C2 (as stated): a candidate that produced a detection and is fed again once
\* duplicateCacheTTL has elapsed produces one further detection.
C2_ReplayAfterTTLDetects ==
  \A i, j \in DOMAIN calls :
     (i < j /\ SameCandidate(calls[i], calls[j]) /\ calls[i].verdict = "emitted"
            /\ WindowOver(j))
       => Detects(calls[j])

\* C2 (amended): the replay after duplicateCacheTTL produces one further
\* detection provided its timestamp is not below the watermark floored to the
\* minute; the watermark is the time of the latest detection.
C2_ReplayAfterTTLDetectsIfNotBelowFloor ==
  \A i, j \in DOMAIN calls :
     (i < j /\ SameCandidate(calls[i], calls[j]) /\ calls[i].verdict = "emitted"
            /\ WindowOver(j)
            /\ calls[j].timestamp >= StartupFloorTime(calls[j].startup))
       => Detects(calls[j])

C2_Witness ==
  \E i, j \in DOMAIN calls :
     /\ i < j /\ SameCandidate(calls[i], calls[j])
     /\ calls[i].verdict = "emitted" /\ calls[j].verdict = "emitted"
     /\ calls[j].at - calls[i].at >= duplicateCacheTTL
     /\ calls[j].startup = calls[i].emitAt

\* C3: _isRecentMessage(ts) is true exactly when ts is not 0, not null, not
\* after the clock and not before the start of the minute the watermark lies
\* in; so the floor itself is accepted, the floor minus one is rejected, 0 is
\* rejected and the clock plus one minute is rejected.
C3_RecentExactlyFromMinuteFloor ==
  probe.fn = "_isRecentMessage" =>
    LET ts == probe.timestamp
        floor == CHOOSE m \in 0..probe.startup :
                   m % MinuteMs = 0 /\ m <= probe.startup /\ probe.startup < m + MinuteMs
    IN  /\ probe.result = (ts # 0 /\ ts # NoTimestamp /\ ts <= probe.clock /\ ts >= floor)
        /\ (ts = floor /\ ts # 0 /\ ts <= probe.clock => probe.result)
        /\ (ts = floor - 1 => ~probe.result)
        /\ (ts = 0 => ~probe.result)
        /\ (ts = probe.clock + MinuteMs => ~probe.result)

C3_Witness ==
  /\ probe.fn = "_isRecentMessage"
  /\ probe.timestamp < probe.startup
  /\ probe.timestamp = FloorToMinute(probe.startup)
  /\ probe.result

\* the latest detection emitted so far
LastEmitted == CHOOSE i \in Emitted(calls) : \A k \in Emitted(calls) : calls[k].emitNo <= calls[i].emitNo

\* the watermark is the time of the latest detection
WatermarkIsLastDetection ==
  Emitted(calls) # {} => startupTime = calls[LastEmitted].emitAt

IsDataIdKey(k) == Len(k) > 3 /\ SubSeq(k, 1, 3) = << 105, 100, 58 >>

\* C5: one logical incoming message (one data-id), observed through several
\* added-node mutations whose text may differ, produces at most one detection.
C5_OneDetectionPerDataId ==
  \A i, j \in Emitted(calls) :
     (IsDataIdKey(calls[i].messageKey) /\ calls[i].messageKey = calls[j].messageKey)
       => i = j

\* C6: an outgoing node (message-out on the container or on an ancestor) is
\* never pushed to the message queue, so no handleMessage call and no
\* detection is ever made for it.
C6_OutgoingNeverQueued ==
  /\ \A i \in DOMAIN messageQueue : messageQueue[i].marker = "none"
  /\ \A t \in DOMAIN tasks : \A i \in DOMAIN tasks[t].batch :
        tasks[t].batch[i].marker = "none"
  /\ \A i \in DOMAIN calls : calls[i].marker = "none"

C6_Witness ==
  /\ outgoingSeen
  /\ messageQueue = << >>
  /\ Emitted(calls) # {}

\* C7: the duplicate cache never stays above a small multiple (here twice)
\* of the soft cap after the sweep that ends an insertion.
C7_CacheBoundedBySmallMultipleOfCap ==
  Cardinality(DOMAIN detectedHashes) <= 2 * MAX_HASH_CACHE_SIZE

Elements(seq) == { seq[i] : i \in DOMAIN seq }

\* C8: _isChatAllowed is true for every chat name when the filter is
\* disabled; enabled in whitelist mode it is true exactly for the members of
\* whitelistedChats (with ["Mom"], "Mom" is allowed and "Dad" is not), and
\* _shouldFilterByChat filters a candidate exactly when it is false.
C8_DisabledAllowsAllWhitelistAllowsMembers ==
  LET cf == config.chatFilter
  IN  /\ probe.fn = "_isChatAllowed" =>
            /\ (~cf.enabled => probe.result)
            /\ (cf.enabled /\ cf.mode = "whitelist"
                  => probe.result = (probe.chatName \in Elements(cf.whitelistedChats)))
            /\ (cf.enabled /\ cf.mode = "whitelist" /\ cf.whitelistedChats = << "Mom" >>
                  => probe.result = (probe.chatName = "Mom"))
      /\ \A i \in DOMAIN calls :
            /\ (~cf.enabled => calls[i].verdict # "filtered" /\ calls[i].chatSeen = "")
            /\ (cf.enabled /\ cf.mode = "whitelist" /\ calls[i].chatSeen # "")
                  => ((calls[i].verdict = "filtered")
                        = (calls[i].chatSeen \notin Elements(cf.whitelistedChats)))

C8_Witness ==
  /\ config.chatFilter.enabled
  /\ config.chatFilter.mode = "whitelist"
  /\ config.chatFilter.whitelistedChats = << "Mom" >>
  /\ probe.fn = "_isChatAllowed" /\ probe.chatName = "Dad" /\ ~probe.result
  /\ \E i, j \in DOMAIN calls :
        /\ calls[i].chatSeen = "Dad" /\ calls[i].verdict = "filtered"
        /\ calls[j].chatSeen = "Mom" /\ calls[j].verdict = "emitted"

\* C9: enabled in active mode, _isChatAllowed is false for "Unknown" and true
\* for every other name, and no detection is made while the chat name is
\* "Unknown".
C9_ActiveModeRejectsUnknown ==
  (config.chatFilter.enabled /\ config.chatFilter.mode = "active") =>
    /\ probe.fn = "_isChatAllowed" => probe.result = (probe.chatName # "Unknown")
    /\ \A i \in DOMAIN calls : calls[i].chatSeen = "Unknown" => ~Detects(calls[i])

\* keyword k of the configured list is contained in the text, both normalized
\* (and lower-cased unless the match is case sensitive)
Contained(text, k) ==
  LET fold(x) == IF config.caseSensitive THEN x ELSE toLowerCase(x)
      t == fold(normalizeArabicText(text))
      kw == fold(normalizeArabicText(config.keywords[k]))
  IN  \E i \in 1..(Len(t) - Len(kw) + 1) : SubSeq(t, i, i + Len(kw) - 1) = kw

\* what C10 expects of _findMatchedKeyword(text)
FirstContained(text) ==
  IF \E k \in DOMAIN config.keywords : Contained(text, k)
  THEN LET first == CHOOSE k \in DOMAIN config.keywords :
                      /\ Contained(text, k)
                      /\ \A m \in 1..(k - 1) : ~Contained(text, m)
       IN  config.keywords[first]
  ELSE NoKeyword

\* C10: in substring mode _findMatchedKeyword returns the first keyword, in
\* configured order, whose normalized form is contained in the normalized
\* text, as the configured string itself, and null when none is; the keyword
\* of a detection event is that first keyword.
C10_FirstConfiguredKeywordWins ==
  ~config.wholeWordMatch =>
    /\ probe.fn = "_findMatchedKeyword" => probe.result = FirstContained(probe.text)
    /\ \A i \in DOMAIN calls :
          Detects(calls[i]) => calls[i].keyword = FirstContained(calls[i].text)

C10_Witness ==
  /\ probe.fn = "_findMatchedKeyword"
  /\ Cardinality({ k \in DOMAIN config.keywords : Contained(probe.text, k) }) > 1
  /\ probe.result = config.keywords[1]
  /\ normalizeArabicText(probe.result) # probe.result
  /\ \E i \in Emitted(calls) :
        /\ calls[i].keyword = config.keywords[1]
        /\ Contained(calls[i].text, 3)

\* the offsets at which kw occurs in t
Occurrences(t, kw) ==
  { i \in 0..(Len(t) - Len(kw)) : SubSeq(t, i + 1, i + Len(kw)) = kw }

\* the occurrence of kw at offset i of t is a whole word
WholeWordAt(t, kw, i) ==
  /\ (i = 0 \/ t[i] \in Whitespace \cup Punctuation)
  /\ (i + Len(kw) = Len(t) \/ t[i + Len(kw) + 1] \in Whitespace \cup Punctuation)

\* C11: in whole-word mode matchKeywords is true exactly when some occurrence
\* of a keyword in the text has start-of-string, whitespace or punctuation
\* before it and end-of-string, whitespace or punctuation after it; a keyword
\* occurring only inside longer words does not match in whole-word mode and
\* matches in substring mode.
C11_WholeWordExactlyWhenBounded ==
  probe.fn = "matchKeywords" =>
    LET t == toLowerCase(normalizeArabicText(probe.text))
        kw(k) == toLowerCase(normalizeArabicText(probe.keywords[k]))
        bounded == \E k \in DOMAIN probe.keywords :
                      \E i \in Occurrences(t, kw(k)) : WholeWordAt(t, kw(k), i)
        occurs == \E k \in DOMAIN probe.keywords : Occurrences(t, kw(k)) # {}
    IN  /\ probe.whole = bounded
        /\ (occurs /\ ~bounded) => (~probe.whole /\ probe.substring)

C11_Witness ==
  /\ probe.fn = "matchKeywords"
  /\ ~probe.whole
  /\ probe.substring
  /\ Len(probe.text) = 3
  /\ probe.text[2] = 1594

\* C12: normalizeArabicText is idempotent, also when a stripped character
\* sits between a base character and a combining mark.
C12_NormalizeIdempotent ==
  probe.fn = "normalizeArabicText" => probe.twice = probe.once

\* the keywords of the configuration whose evaluation does not fail and that
\* match the text, by index
MatchingKeywords(text) ==
  { k \in DOMAIN config.keywords :
      /\ ~KeywordThrows(normalizeArabicText(config.keywords[k]), MatchOptions(config))
      /\ KeywordHits(SearchText(text, MatchOptions(config)),
                     normalizeArabicText(config.keywords[k]), MatchOptions(config)) }

\* C13: a keyword whose evaluation fails is treated as non-matching and the
\* matching goes on with the remaining keywords: the result of
\* _findMatchedKeyword is the first keyword that matches the text, whatever
\* failing keyword stands before it, and a message that such a keyword
\* matches is never dismissed for want of a keyword.
C13_FailingKeywordSkipped ==
  /\ probe.fn = "_findMatchedKeyword" =>
        probe.result = IF MatchingKeywords(probe.text) = {} THEN NoKeyword
                       ELSE config.keywords[First(MatchingKeywords(probe.text))]
  /\ \A i \in DOMAIN calls :
        calls[i].verdict = "nomatch" => MatchingKeywords(calls[i].text) = {}

\* message m as the history records it in entry e
SameMessage(e, m) ==
  /\ e.text = m.text /\ e.timestamp = m.timestamp
  /\ e.messageKey = m.messageKey /\ e.marker = m.marker

\* activation t is at the emission of a call that throws in this step
ThrowsNow(t) ==
  /\ tasks[t].pc = "chat2"
  /\ Len(calls') >= Len(calls)
  /\ calls[tasks[t].call].verdict # "threw"
  /\ calls'[tasks[t].call].verdict = "threw"

\* C14: an exception raised while one candidate is handled is caught in
\* handleMessage and only that candidate is skipped: in the step in which the
\* call throws, the remaining candidates of the drained batch are handled in
\* their order, up to the end of the batch or to the next candidate that
\* waits for the page, and the polling interval stays armed.
C14_ThrowSkipsOnlyThatCandidate ==
  [][ \A t \in 1..NumPollers :
        ThrowsNow(t) =>
          /\ pollInterval' = pollInterval
          /\ \A k \in 1..(Len(calls') - Len(calls)) :
                /\ tasks[t].idx + k <= Len(tasks[t].batch)
                /\ SameMessage(calls'[Len(calls) + k], tasks[t].batch[tasks[t].idx + k])
          /\ IF tasks'[t].pc = "idle"
             THEN tasks[t].idx + (Len(calls') - Len(calls)) = Len(tasks[t].batch)
             ELSE /\ tasks'[t].batch = tasks[t].batch
                  /\ tasks'[t].idx = tasks[t].idx + (Len(calls') - Len(calls))
                  /\ tasks'[t].call = Len(calls') ]_vars

\* a call threw, the candidate after it in the batch was handled, and a later
\* tick of the interval has drained the queue again
C14_Witness ==
  \E i \in DOMAIN calls :
    /\ calls[i].verdict = "threw"
    /\ i + 1 \in DOMAIN calls
    /\ calls[i + 1].at = calls[i].emitAt
    /\ calls[i + 1].text # calls[i].text
    /\ pollInterval = "armed"

\* cleanup() runs in this step
CleanupNow == probe'.fn = "cleanup" /\ probe' # probe

\* C15: cleanup() leaves observerActive false and the duplicate cache empty,
\* and a second cleanup() changes nothing of what the first one left: called
\* on a watcher that is inactive with an empty cache it leaves every field of
\* the watcher, the page and the poll loop as it was.
C15_CleanupClearsAndIsIdempotent ==
  [][ CleanupNow =>
        /\ ~observerActive' /\ detectedHashes' = << >>
        /\ (probe.fn = "cleanup" /\ ~observerActive /\ detectedHashes = << >>) =>
             << now, config, watcherVars, pageVars, pollInterval, tasks, calls >>'
               = << now, config, watcherVars, pageVars, pollInterval, tasks, calls >> ]_vars

\* cleanup() ran twice, the watcher had been active and the first call
\* dropped entries of the cache
C15_Witness ==
  /\ probe.fn = "cleanup" /\ probe.n = 2 /\ probe.dropped
  /\ observing /\ ~observerActive /\ detectedHashes = << >>

\* C16: after cleanup() no detection is emitted: a handleMessage call that
\* was waiting for the chat-name lookup when cleanup() ran does not call
\* onMessageDetected (and so does not advance startupTime) when it resumes.
C16_SuspendedCallDoesNotEmit ==
  probe.fn = "cleanup" =>
    \A c \in probe.inflight : calls[c].verdict # "emitted"

\* C17: cleanup() stops the poll loop: once cleanup() has returned, no tick of
\* the interval goes on to drain the message queue, and so none calls
\* handleMessage.
C17_NoTickDrainsAfterCleanup ==
  [][ probe.fn = "cleanup" =>
        \A t \in 1..NumPollers :
          tasks[t].pc = "idle" => tasks'[t].pc = "idle" ]_vars

\* C18: candidates are handled strictly one at a time: while the
\* handleMessage call of one activation of the tick waits for the page, no
\* handleMessage call starts for another candidate in another activation.
C18_OneCandidateAtATime ==
  [][ \A t \in 1..NumPollers :
        (tasks[t].pc \in { "chat1", "chat2" } /\ tasks'[t] = tasks[t]) =>
          Len(calls') = Len(calls) ]_vars

\* C19: initialize() returns true and raises observerActive exactly when the
\* observer has been injected; when attaching fails it returns false with
\* observerActive left false, and start() then never starts to poll: the
\* interval is never armed, no tick runs and no candidate is handled.
C19_FailedInitializeAbortsStart ==
  /\ observerActive => observing
  /\ probe.fn = "_initializeWatcher" =>
        /\ probe.watcherReady = probe.injected
        /\ observerActive = probe.injected
        /\ ~probe.injected =>
              /\ pollInterval = "null"
              /\ \A t \in 1..NumPollers : tasks[t] = IdleTask
              /\ calls = << >>

\* attaching failed after the page had installed the observer: the page has
\* queued a message, and nothing polls
C19_Witness ==
  /\ probe.fn = "_initializeWatcher" /\ ~probe.watcherReady
  /\ observing /\ messageQueue # << >>
  /\ ~observerActive /\ pollInterval = "null"

\* the page round trip of activation t throws in this step, or has thrown
\* before and this step ends the activation without a message to handle
PollingErrorNow(t) ==
  /\ probe'.fn = "pollingError"
  /\ tasks[t].pc = "drain" /\ tasks'[t] = IdleTask
  /\ calls' = calls /\ messageQueue' = messageQueue

\* C20: a poll round trip that throws does not stop polling: the failed tick
\* leaves the duplicate cache, startupTime, the flag and the other
\* activations as they were and the interval armed, so that the next tick
\* finds an idle activation and the queue as the page left it.
C20_FailedTickChangesNothing ==
  [][ \A t \in 1..NumPollers :
        PollingErrorNow(t) =>
          /\ detectedHashes' = detectedHashes
          /\ startupTime' = startupTime
          /\ observerActive' = observerActive
          /\ pollInterval' = "armed"
          /\ \A u \in 1..NumPollers : u # t => tasks'[u] = tasks[u] ]_vars

\* after a tick failed, a later tick has drained the queue and a candidate
\* it handled was emitted
C20_Witness ==
  /\ probe.fn = "pollingError"
  /\ \E i \in DOMAIN calls : i > probe.handled /\ calls[i].verdict = "emitted"

\* C21: with loop enabled and autoStopMs = 0, a started alarm stays in the
\* playing state, isPlaying true and the loop timer armed, until stop() is
\* called by the ESC key or by shutdown: no other step ends playback.
C21_PlaysUntilStoppedByEscOrShutdown ==
  /\ (config.alarm.loop /\ config.alarm.autoStopMs = 0 /\ alarm.isPlaying) =>
        (alarm.loopInterval = "armed" /\ alarm.loops = 1)
  /\ (config.alarm.loop /\ config.alarm.autoStopMs = 0 /\ ~alarm.isPlaying
        /\ alarm.startedAt # NoTimestamp) => alarm.stoppedBy \in { "esc", "shutdown" }

\* the alarm has been started and has played through exits of its audio
\* process and ticks of the loop, and nobody has stopped it
C21_Witness ==
  /\ config.alarm.loop /\ config.alarm.autoStopMs = 0
  /\ alarm.isPlaying /\ alarm.stoppedBy = "none"
  /\ alarm.spawned = MaxSpawns /\ now > alarm.startedAt

\* C22: the system shuts down gracefully on errors: when start() fails after
\* the browser has been launched, the process exits only after shutdown() has
\* stopped the alarm, cleared the poll interval, cleaned up the watcher and
\* closed the browser.
C22_FailedStartShutsDownGracefully ==
  system.pc = "exited" =>
    /\ system.browser # "open"
    /\ ~alarm.isPlaying
    /\ pollInterval = "null"
    /\ ~observerActive /\ detectedHashes = << >>

\* C23: a candidate is dropped as a duplicate only when an earlier candidate
\* with the same text and timestamp was alarmed on; one that matched no
\* keyword or that the chat filter rejected suppresses no later candidate.
C23_DuplicateOnlyOfAlarmed ==
  \A j \in DOMAIN calls :
    calls[j].verdict = "duplicate" =>
      \E i \in 1..(j - 1) :
        /\ calls[i].text = calls[j].text
        /\ calls[i].timestamp = calls[j].timestamp
        /\ calls[i].verdict = "emitted"

\* handleMessage is called in this step
CalledNow == Len(calls') = Len(calls) + 1

\* call i emits its detection in this step
EmitsNow(i) == calls[i].verdict # "emitted" /\ calls'[i].verdict = "emitted"

\* C24: handleMessage applies recency, duplicate cache, keyword match, chat
\* filter and emission in this order and a candidate rejected at one stage has
\* none of the effects of the later ones: a candidate is rejected as old
\* exactly when the recency filter rejects it, and then the duplicate cache
\* is unchanged; a candidate without keyword has been recorded in the cache;
\* only a candidate that matched, and that the chat filter (when enabled)
\* allowed, is emitted; and startupTime changes only in a step that emits.
C24_StagesInOrder ==
  [][ /\ CalledNow =>
           /\ (calls'[Len(calls')].verdict = "old")
                 = ~_isRecentMessage(calls'[Len(calls')].timestamp, startupTime, now)
           /\ calls'[Len(calls')].verdict = "old" => detectedHashes' = detectedHashes
           /\ calls'[Len(calls')].verdict = "nomatch" => detectedHashes' # detectedHashes
           /\ calls'[Len(calls')].verdict \in { "old", "duplicate", "nomatch", "matched" }
      /\ \A i \in DOMAIN calls :
           EmitsNow(i) =>
             /\ calls[i].verdict = "matched"
             /\ config.chatFilter.enabled => calls[i].chatSeen = "Mom"
      /\ startupTime' # startupTime => \E i \in DOMAIN calls : EmitsNow(i)
      /\ (\A i \in DOMAIN calls : ~EmitsNow(i)) => startupTime' = startupTime ]_vars

\* with the chat filter enabled a candidate was allowed and emitted, and the
\* recency filter has then rejected a candidate with its text and timestamp
C24_Witness ==
  \E i, j \in DOMAIN calls :
    /\ config.chatFilter.enabled
    /\ i < j /\ calls[i].verdict = "emitted" /\ calls[j].verdict = "old"
    /\ calls[i].text = calls[j].text /\ calls[i].timestamp = calls[j].timestamp

\* the two hashes _isDuplicate computes for call entry c
FallbackHashOf(c) == hashText(FallbackFingerprint(c.text, c.timestamp))
KeyHashOf(c) == hashText(KeyFingerprint(c.text, c.timestamp, c.messageKey))

\* an earlier call recorded the text and timestamp of c less than
\* duplicateCacheTTL before clock
RecordedWithin(c, clock) ==
  \E k \in DOMAIN calls :
    /\ Recorded(calls[k])
    /\ calls[k].text = c.text /\ calls[k].timestamp = c.timestamp
    /\ clock - calls[k].at < duplicateCacheTTL

\* the cache after the non-duplicate call c holds the time clock for the
\* fingerprints of c, and nothing else that it did not hold before
RecordedAt(c, clock) ==
  /\ FallbackHashOf(c) \in DOMAIN detectedHashes'
  /\ detectedHashes'[FallbackHashOf(c)] = clock
  /\ c.messageKey # NoKey =>
        /\ KeyHashOf(c) \in DOMAIN detectedHashes'
        /\ detectedHashes'[KeyHashOf(c)] = clock
  /\ \A h \in DOMAIN detectedHashes' :
        \/ h = FallbackHashOf(c)
        \/ c.messageKey # NoKey /\ h = KeyHashOf(c)
        \/ h \in DOMAIN detectedHashes /\ detectedHashes'[h] = detectedHashes[h]

\* C25: _isDuplicate reports a duplicate exactly when the text and timestamp
\* of the candidate were recorded less than duplicateCacheTTL ago, whatever
\* the identity keys of the two candidates are; a duplicate leaves the cache
\* as it was, a non-duplicate records the fingerprints computed for it (the
\* identity one only when it has an identity key) with the current time.
C25_EitherFingerprintAndRecording ==
  [][ (CalledNow /\ calls'[Len(calls')].verdict # "old") =>
        /\ (calls'[Len(calls')].verdict = "duplicate")
              = RecordedWithin(calls'[Len(calls')], now)
        /\ IF calls'[Len(calls')].verdict = "duplicate"
           THEN detectedHashes' = detectedHashes
           ELSE RecordedAt(calls'[Len(calls')], now) ]_vars

\* a candidate was dropped as the duplicate of one with another identity key
C25_Witness ==
  \E i, j \in DOMAIN calls :
    /\ i < j /\ Recorded(calls[i]) /\ calls[j].verdict = "duplicate"
    /\ calls[i].text = calls[j].text /\ calls[i].timestamp = calls[j].timestamp
    /\ calls[i].messageKey # NoKey /\ calls[j].messageKey # NoKey
    /\ calls[i].messageKey # calls[j].messageKey

\* the hashes the non-duplicate call c sets
OwnHashes(c) ==
  { FallbackHashOf(c) } \cup IF c.messageKey # NoKey THEN { KeyHashOf(c) } ELSE {}

\* the age at clock of entry h of the cache as the insertion of c leaves it
AgeAfterInsert(h, c, clock) ==
  IF h \in OwnHashes(c) THEN 0 ELSE clock - detectedHashes[h]

\* C26: when a non-duplicate insertion leaves the cache with more entries
\* than the cap, the sweep that follows removes every entry older than
\* duplicateCacheTTL and none that is younger; while the cache holds no more
\* entries than the cap, nothing is removed however old it is.
C26_SweepOnlyAboveCap ==
  [][ (CalledNow /\ calls'[Len(calls')].verdict \notin { "old", "duplicate" }) =>
        IF Cardinality(DOMAIN detectedHashes \cup OwnHashes(calls'[Len(calls')]))
             > MAX_HASH_CACHE_SIZE
        THEN \A h \in DOMAIN detectedHashes \cup OwnHashes(calls'[Len(calls')]) :
               /\ AgeAfterInsert(h, calls'[Len(calls')], now) > duplicateCacheTTL
                     => h \notin DOMAIN detectedHashes'
               /\ AgeAfterInsert(h, calls'[Len(calls')], now) < duplicateCacheTTL
                     => h \in DOMAIN detectedHashes'
        ELSE DOMAIN detectedHashes'
               = DOMAIN detectedHashes \cup OwnHashes(calls'[Len(calls')]) ]_vars

\* a sweep above the cap has removed the entry of one recorded call and kept
\* the entry of another
C26_Witness ==
  \E k, j \in DOMAIN calls :
    /\ Recorded(calls[k]) /\ FallbackHashOf(calls[k]) \notin DOMAIN detectedHashes
    /\ Recorded(calls[j]) /\ FallbackHashOf(calls[j]) \in DOMAIN detectedHashes

\* C27: a message whose timestamp element carries a relative-age marker and
\* no parseable bracketed date gets timestamp 0, one whose timestamp cannot be
\* parsed at all gets null, and neither ever produces a detection, whatever
\* the watermark is.
C27_UnparsedTimestampFailsClosed ==
  /\ \A node \in DomNodes(now) :
       /\ node.time.kind = "relative" => extractTimestamp(node) = 0
       /\ node.time.kind \in { "garbage", "none" } => extractTimestamp(node) = NoTimestamp
  /\ \A i \in DOMAIN calls :
       calls[i].timestamp \in { 0, NoTimestamp } =>
         ~Detects(calls[i]) /\ calls[i].verdict = "old"

\* a keyword message with timestamp 0 and one with timestamp null were both
\* handled, after a detection had moved the watermark or not
C27_Witness ==
  \E i, j \in DOMAIN calls :
    /\ calls[i].timestamp = 0 /\ calls[j].timestamp = NoTimestamp
    /\ calls[i].text = TextGhab /\ calls[j].text = TextGhab
    /\ calls[i].verdict = "old" /\ calls[j].verdict = "old"

\* C28: the watermark startupTime never decreases over initialize, poll
\* ticks, handleMessage calls, detections and cleanup, given a non-decreasing
\* clock; the lower end of what the recency filter accepts never moves down.
C28_WatermarkNeverDecreases ==
  [][ /\ now' >= now
      /\ startupTime' >= startupTime
      /\ StartupFloorTime(startupTime') >= StartupFloorTime(startupTime)
      /\ \A ts \in 0..MaxTime :
           _isRecentMessage(ts, startupTime', now') =>
             ts > now \/ _isRecentMessage(ts, startupTime, now) ]_vars

\* a detection after a cleanup has advanced the watermark past the value the
\* detected message was measured against
C28_Witness ==
  /\ Cleanups > 0
  /\ \E i \in Emitted(calls) :
       /\ startupTime = calls[i].emitAt
       /\ calls[i].emitAt > calls[i].startup

\* no two handleMessage calls of the history are for the same observation
HandedOverOnce(log) ==
  \A i, j \in DOMAIN log : i < j => ~SameMessage(log[i], log[j])

\* activation u still holds observations of its batch that have not been
\* handed to handleMessage
HoldsUnhandled(u) == tasks[u].idx < Len(tasks[u].batch)

\* activation t drains the queue in this step and hands its head to
\* handleMessage
DrainsNow(t) ==
  /\ tasks[t].pc = "drain"
  /\ messageQueue # << >> /\ messageQueue' = << >>
  /\ Len(calls') > Len(calls)

\* C29: each observation pushed to the queue is handed to handleMessage at
\* most once and in the order it was pushed, also when two poll ticks
\* overlap: no drain hands over the observations pushed after an earlier
\* drain while the batch of that earlier drain still holds observations that
\* have not been handed over.
C29_HandedOverOnceInPushOrder ==
  [][ /\ HandedOverOnce(calls')
      /\ \A t \in 1..NumPollers :
           DrainsNow(t) => \A u \in 1..NumPollers \ { t } : ~HoldsUnhandled(u) ]_vars

\* the observations the observer can push from OrderNodes
LiveMessages ==
  { [ text |-> x, timestamp |-> FloorToMinute(t), messageKey |-> KeyM1,
      marker |-> "none" ] :
      x \in { TextGhab, TextGhabat, TextPlain }, t \in 0..MaxTime }

\* the observer has pushed m: processNode has put its dedupeKey in the seen set
Pushed(m) ==
  (m.messageKey \o << PIPE >> \o TimestampText(m.timestamp) \o << PIPE >> \o m.text)
    \in seenMessageKeys

HandedOver(m) == \E i \in DOMAIN calls : SameMessage(calls[i], m)

\* C30: while polling is running and page round trips succeed in the end,
\* every observation pushed to the message queue is eventually passed to
\* handleMessage; no queued observation waits forever.
C30_QueuedIsEventuallyHandled ==
  (pollInterval = "armed") ~> (\A m \in LiveMessages : Pushed(m) => HandedOver(m))

\* two observations were pushed and both have been handed over, one of them
\* behind a detection that waited for the page
C30_Witness ==
  /\ pollInterval = "armed"
  /\ messageQueue = << >>
  /\ Cardinality(seenMessageKeys) = 2
  /\ Len(calls) = 2
  /\ calls[1].verdict = "emitted"
  /\ \A m \in LiveMessages : Pushed(m) => HandedOver(m)

\* the dedupeKey processNode builds for observation m
DedupeKey(m) ==
  m.messageKey \o << PIPE >> \o TimestampText(m.timestamp) \o << PIPE >> \o m.text

\* the observer pushes an observation in this step
PushesNow == Len(messageQueue') > 0 /\ messageQueue' # messageQueue

QueueResetNow ==
  /\ messageQueue # << >> /\ messageQueue' = << >>
  /\ tasks' = tasks /\ calls' = calls

\* C32: resetAfterAlarmStop loses no incoming message: every observation that
\* was queued and not yet drained when it ran is still in the queue for
\* handleMessage, or can be queued again when its node is next observed (its
\* dedupe key is not in the seen set).
C32_ResetLosesNoMessage ==
  [][ QueueResetNow =>
        \A k \in DOMAIN messageQueue :
          \/ \E j \in DOMAIN messageQueue' : messageQueue'[j] = messageQueue[k]
          \/ DedupeKey(messageQueue[k]) \notin seenMessageKeys' ]_vars

\* C33: at most one loop timer exists and only while the alarm is playing:
\* loopInterval is non-null only if isPlaying, start() while playing and
\* stop() while not playing change nothing, and detection events that arrive
\* while the alarm plays arm no second timer.
C33_OneLoopTimerWhilePlaying ==
  /\ alarm.loops <= 1
  /\ alarm.loopInterval = "armed" <=> alarm.loops = 1
  /\ alarm.loopInterval = "armed" => alarm.isPlaying
  /\ alarm.isPlaying => start(alarm, config.alarm, now) = alarm
  /\ ~alarm.isPlaying =>
        \A by \in { "esc", "autoStop", "shutdown" } : stop(alarm, by) = alarm

\* the alarm was stopped and started again and plays with its one timer
C33_Witness ==
  /\ alarm.isPlaying /\ alarm.loops = 1
  /\ alarm.stoppedBy = "esc"
  /\ alarm.spawned >= 2

\* the audio processes that run: spawned, not killed, exit event not delivered
Running(a) == a.alive \ a.killed

\* C34: alarm playback never overlaps: _playOnce spawns a process only when
\* none it spawned earlier still runs, and isCurrentlyPlaying is true
\* whenever a spawned process has not yet exited, also across a stop()
\* followed by a new start() before the exit event of the old process.
C34_PlaybackNeverOverlaps ==
  /\ Cardinality(Running(alarm)) <= 1
  /\ Running(alarm) # {} => alarm.isCurrentlyPlaying

\* an auto-stop timer stops the playing alarm in this step
AutoStoppedNow ==
  /\ alarm.isPlaying /\ ~alarm'.isPlaying
  /\ alarm'.stoppedBy = "autoStop"
  /\ alarm'.autoStops # alarm.autoStops

\* C35: with autoStopMs = D > 0 every started alarm plays for a full D unless
\* stop() is called for it: no auto-stop timer, also not one armed by an
\* earlier start() whose alarm was stopped by hand, stops an alarm that has
\* played for less than D.
C35_AutoStopOnlyAfterFullDuration ==
  [][ AutoStoppedNow => now - alarm.startedAt >= config.alarm.autoStopMs ]_vars

\* C36: with the chat filter enabled, the chatName carried by an emitted
\* detection event is a chat name the filter allowed: the name read for the
\* filter decision and the name read for the event payload are the same, also
\* when the active chat changes between the two reads.
C36_PayloadChatIsFilteredChat ==
  \A i \in Emitted(calls) :
    config.chatFilter.enabled =>
      /\ calls[i].chatName = calls[i].chatSeen
      /\ _isChatAllowed(calls[i].chatName, config)

\* fingerprint h is not stored, or its stored time is duplicateCacheTTL or
\* more before clock
Expired(h, clock) ==
  h \in DOMAIN detectedHashes => clock - detectedHashes[h] >= duplicateCacheTTL

\* C37: the duplicate window runs from the time a fingerprint was last
\* recorded as a non-duplicate and duplicate hits do not extend it: a
\* candidate rejected as a duplicate leaves every stored time as it was, and
\* a candidate whose fingerprints were stored exactly duplicateCacheTTL or
\* more ago is treated as new and recorded again with the current time.
C37_WindowNotExtendedByHits ==
  [][ (CalledNow /\ calls'[Len(calls')].verdict # "old") =>
        /\ calls'[Len(calls')].verdict = "duplicate" =>
              \A h \in DOMAIN detectedHashes :
                h \in DOMAIN detectedHashes' /\ detectedHashes'[h] = detectedHashes[h]
        /\ (\A h \in OwnHashes(calls'[Len(calls')]) : Expired(h, now)) =>
              /\ calls'[Len(calls')].verdict # "duplicate"
              /\ \A h \in OwnHashes(calls'[Len(calls')]) :
                    h \in DOMAIN detectedHashes' /\ detectedHashes'[h] = now ]_vars

\* a candidate was recorded, was rejected as a duplicate within the window,
\* and was recorded again exactly duplicateCacheTTL after the first recording
C37_Witness ==
  \E i, j, k \in DOMAIN calls :
    /\ i < j /\ j < k
    /\ Recorded(calls[i]) /\ calls[j].verdict = "duplicate" /\ Recorded(calls[k])
    /\ SameMessage(calls[i], calls[j]) /\ SameMessage(calls[j], calls[k])
    /\ calls[j].at > calls[i].at
    /\ calls[k].at = calls[i].at + duplicateCacheTTL

\* C38: once shutdown() has stopped the alarm, the alarm is never started
\* again: a handleMessage call that was in flight when shutdown() began does
\* not bring isPlaying back to true.
C38_NoStartAfterShutdown ==
  system.pc \in { "alarmStopped", "closing", "exited" } => ~alarm.isPlaying

\* C39: in substring mode a keyword whose normalized form is the empty
\* string matches no message: matchKeywords(text, [k]) is false for every
\* text when normalizeArabicText(k) is empty.
C39_EmptyKeywordMatchesNothing ==
  (probe.fn = "matchKeywords" /\ normalizeArabicText(probe.keywords[1]) = << >>)
    => ~probe.substring
====
